---------------------------- MODULE Spec2Model ----------------------------
(***************************************************************************)
(* A model of the retrieval-augmented generation pipeline of doc-agent-mlt *)
(*                                                                         *)
(*   app/processors/content_generator.py   generation client and the      *)
(*                                          chunked structured-item loop   *)
(*   app/services/question_gen_service.py  the generation request          *)
(*   app/processors/vector_processor.py    embedding cache, embedding      *)
(*                                          engine, chunk-and-embed        *)
(***************************************************************************)
EXTENDS Integers, Sequences, FiniteSets, TLC

(***************************************************************************)
(* Bounds of the model                                                     *)
(***************************************************************************)
\* largest quiz_count / flashcard_count besides the scenario counts
MaxTarget == 3
\* largest configured items-per-chunk besides the default
MaxChunk == 2
\* longest item list of an arbitrary LLM response
MaxResp == 2
\* largest flashcard_count
MaxFlash == 2
\* largest max_cache_size of the embedding cache
MaxCap == 2
\* most chunks a document text splits into
MaxChunks == 2
\* chunk_and_embed_document calls in one behaviour
MaxCalls == 2
\* similarity_search is called with top_k up to MaxTopK, and with the configured one
MaxTopK == 2
\* ingestion requests in one behaviour
MaxDocs == 2
\* requests to other endpoints that can be waiting for the event loop
MaxOthers == 2
\* setup_text_splitter is called with every word count up to MaxWords, and with
\* the word counts around the thresholds
MaxWords == 2
\* SimpleCache.set calls in one behaviour of direct cache use
MaxOps == 4

(***************************************************************************)
(* Program constants                                                       *)
(***************************************************************************)
\* content_generator.py:39
max_retries == 3
\* content_generator.py:69
MinCachedLen == 50
\* content_generator.py:70
GenCacheCap == 1000
\* config.py:56 and :57 (questions_per_chunk, flashcards_per_chunk)
DefaultPerChunk == 15
\* settings.rag.retrieval_top_k
retrieval_top_k == 8
\* settings.rag.similarity_threshold, 0.5, in fiftieths
similarity_threshold == 25
\* settings.rag.max_context_length
max_context_length == 3000
\* settings.vector.min_context_chars
min_context_chars == 100
\* len(settings.vector.context_separator), the separator being "\n\n"
SeparatorChars == 2
\* len("...")
MarkerChars == 3

Min(a, b) == IF a <= b THEN a ELSE b
Max(a, b) == IF a >= b THEN a ELSE b

RECURSIVE SeqsUpTo(_, _)
\* all sequences over S of length at most n
SeqsUpTo(S, n) ==
  IF n = 0 THEN {<<>>}
  ELSE LET shorter == SeqsUpTo(S, n - 1)
       IN  shorter \cup {Append(s, x) : s \in {t \in shorter : Len(t) = n - 1}, x \in S}

(***************************************************************************)
(* Items an LLM response can hold once parsed.  An item is a JSON value;   *)
(* dict is FALSE for a value that is not an object (a bare string).        *)
(***************************************************************************)
Item(q, ca, opts, ans) ==
  [dict |-> TRUE, question |-> q, correct_answer |-> ca, options |-> opts, answer |-> ans]

\* valid as a quiz item and as a flashcard
GoodItem == Item("q1", "a", <<"a", "b">>, "a")
\* valid as a quiz item (its correct_answer is none of its options), no flashcard
OddItem == Item("q2", "c", <<"a", "b">>, "")
\* a single option and no answer: valid for neither
BadItem == Item("q3", "a", <<"a">>, "")
\* not a JSON object
NonDict == [dict |-> FALSE, question |-> "", correct_answer |-> "", options |-> <<>>, answer |-> ""]

(***************************************************************************)
(* What generate_content can return: a text (its length in characters and  *)
(* the item list the tolerant JSON parser extracts from it), or None.      *)
(***************************************************************************)
Text(n, its) == [kind |-> "str", chars |-> n, items |-> its]
EmptyString == Text(0, <<>>)
NoneValue == [kind |-> "None", chars |-> 0, items |-> <<>>]

\* the 3 valid + 2 invalid response of the end-to-end scenario
ScenarioItems == <<GoodItem, BadItem, OddItem, BadItem, GoodItem>>

\* message.content of a successful completion (Optional[str])
LLMContents ==
  {NoneValue, EmptyString}
    \cup {Text(MinCachedLen, its) : its \in {<<>>, <<GoodItem>>}}
    \cup {Text(MinCachedLen + 1, its) : its \in SeqsUpTo({GoodItem, BadItem}, MaxResp)}
    \cup {Text(MinCachedLen + 1, its) :
            its \in {<<OddItem>>, <<NonDict>>, <<GoodItem, NonDict>>, ScenarioItems}}

\* a completion request ends with a content or raises
LLMErrors == {"rate", "error"}


(***************************************************************************)
(* State                                                                   *)
(***************************************************************************)
VARIABLES
  settings,         \* settings.generation: questions_per_chunk, flashcards_per_chunk
  cache,            \* ContentGenerator.cache: prompt hash -> response text
  pc,               \* position of the generation request the process serves
  request,          \* QuestionGenerationRequest: quiz_count, flashcard_count
  questions_count,  \* process_rag_quiz_and_flashcards: questions_count
  flashcards_count, \* process_rag_quiz_and_flashcards: flashcards_count
  reply,            \* what process_rag_quiz_and_flashcards returns or raises
  rag_context,      \* whether get_relevant_context gave text for the request
  saved_questions,  \* the Question rows the request persisted, each with its
                    \* QuestionAnswer rows
  kind,             \* content_type of the chunked run: "questions" | "flashcards"
  target_count,     \* _generate_content_chunked locals
  chunk_size,
  num_calls,
  call_index,
  all_items,
  failed_calls,
  current_chunk,
  result,           \* the list _generate_content_chunked returned
  attempt,          \* generate_content: loop variable
  response,         \* what generate_content returned
  outcome,          \* how the last attempt of generate_content ended
  llm_requests,     \* history: completion requests issued by this generate_content call
  log,              \* history: one entry per generation call (generate_json_items)
  lastok            \* history: prompt -> last non-empty content a completion returned for it

reqVars == <<request, questions_count, flashcards_count, reply, rag_context,
             saved_questions>>
runVars == <<kind, target_count, chunk_size, num_calls, call_index, all_items,
             failed_calls, current_chunk, result, log>>
gcVars == <<attempt, response, outcome, llm_requests>>
genVars == <<settings, cache, pc, reqVars, runVars, gcVars, lastok>>

\* vector_processor.py
VARIABLES
  max_size,         \* SimpleCache.max_size (settings.vector.max_cache_size)
  embedding_cache,  \* SimpleCache.cache, a dict in insertion order: <<[key, value], ...>>
  rows,             \* the committed rows of table document_chunks
  next_id,          \* source of fresh row ids (uuid4)
  vpc,              \* per caller: position in chunk_and_embed_document
  doc,              \* per caller: document_id
  chunks,           \* per caller: what text_splitter.split_text(text_content) gives
  embeddings,       \* per caller: what create_embeddings returned
  ret,              \* per caller: how the last call ended and what it returned
  calls,            \* history: calls started so far
  encoded,          \* history: the texts the last step passed to model.encode
  created,          \* history: per document, the rows returned by the call that made them
  overlap           \* history: per document, whether two calls passed the existence
                    \* check before either committed

vecVars == <<max_size, embedding_cache, rows, next_id, vpc, doc, chunks,
             embeddings, ret, calls, encoded, created, overlap>>

\* calls of the embedding engine and of retrieval (vector_processor.py)
VARIABLES
  emb_call,         \* the last direct create_embeddings call: texts, result, and the
                    \* texts of it that an earlier call had embedded
  seen,             \* history: text -> the vector create_embeddings first returned for it
  search,           \* the last similarity_search call: arguments and result
  context           \* the last get_relevant_context call: arguments and result

srchVars == <<emb_call, seen, search, context>>

\* document ingestion (document_process_service.py)
VARIABLES
  documents,        \* table documents: document id -> row, NoDocument where there is none
  files,            \* the files the storage provider holds: <<directory, document id>>
  chunk_rows,       \* document id -> number of document_chunks rows with that document_id
  total_documents,  \* Session.total_documents of the one session
  ingest,           \* the ingestion request in progress: position, arguments, reply
  embedded          \* history: the ids chunk_and_embed_document returned successfully for

ingVars == <<documents, files, chunk_rows, total_documents, ingest, embedded>>

\* the event loop of the one worker process (main.py: uvicorn.run(..., workers=1))
VARIABLES
  waiting,          \* requests to other endpoints that arrived and are not answered yet
  served            \* history: what the generation request was doing when the loop
                    \* last answered another request

loopVars == <<waiting, served>>

\* chunk sizing (chunk_processor.py)
VARIABLES
  splitter,         \* the last setup_text_splitter call: document_length and the
                    \* chunk_size and chunk_overlap of the splitter it returned
  sized             \* history: document_length -> what setup_text_splitter chose for it

chunkVars == <<splitter, sized>>

\* direct use of the embedding cache (vector_processor.py, SimpleCache)
VARIABLES
  cache_op,         \* the last SimpleCache call: method, key, what get returned, and
                    \* for set whether the key was present and the keys it removed
  born,             \* history: key in the cache -> the number of the set call that
                    \* inserted it
  ops               \* history: set calls so far

cacheVars == <<cache_op, born, ops>>

\* create_embeddings calls of concurrent requests (vector_processor.py lines 42-88)
VARIABLES
  emb,              \* per caller: where its create_embeddings call stands, its texts,
                    \* the lookups made, the vectors the model gave, what it returned
  raced,            \* history: a cache update of one call evicted an entry at
                    \* capacity while the other call was in flight
  emb_calls         \* history: create_embeddings calls started so far

concVars == <<emb, raced, emb_calls>>

\* sessions and deletions (session_service.py, document_service.py)
VARIABLES
  sessions,         \* the ids of the Session rows
  removal           \* the last delete_document or delete_session call: its target,
                    \* the document_chunks rows it removed, its reply

storeVars == <<sessions, removal>>

vars == <<genVars, vecVars, srchVars, ingVars, loopVars, chunkVars, cacheVars, concVars,
          storeVars>>
\* what the generation flow leaves alone, and what the chunk-and-embed pipeline does
outsideGen == <<vecVars, srchVars, ingVars, loopVars, chunkVars, cacheVars, concVars,
  storeVars>>
outsideVec == <<genVars, srchVars, ingVars, loopVars, chunkVars, cacheVars, concVars,
  storeVars>>
\* what retrieval leaves alone besides the state of the embedding engine
outsideSrch == <<genVars, ingVars, loopVars, chunkVars, cacheVars, concVars,
  storeVars>>
outsideIng == <<genVars, vecVars, srchVars, loopVars, chunkVars, cacheVars, concVars,
  storeVars>>
outsideLoop == <<genVars, vecVars, srchVars, ingVars, chunkVars, cacheVars, concVars,
  storeVars>>
outsideChunk == <<genVars, vecVars, srchVars, ingVars, loopVars, cacheVars, concVars,
  storeVars>>
outsideCache == <<genVars, srchVars, ingVars, loopVars, chunkVars, concVars,
  storeVars>>
outsideConc == <<genVars, srchVars, ingVars, loopVars, chunkVars, cacheVars,
  storeVars>>
outsideStore == <<genVars, vecVars, srchVars, loopVars, chunkVars, cacheVars, concVars>>


NoReply == [status_code |-> 0, translation_key |-> "none", status |-> "none",
            questions_generated |-> 0, flashcards_generated |-> 0,
            success_rate |-> 0, warnings |-> 0]
\* raise HTTPException(status_code, detail=MessageResponse.create(translation_key, ...))
HTTPException(code, key) == [NoReply EXCEPT !.status_code = code, !.translation_key = key]
NoRequest == [quiz_count |-> 0, flashcard_count |-> 0]

\* the configured items per chunk the model runs with
PerChunkValues == (1 .. MaxChunk) \cup {DefaultPerChunk}
\* quiz_count values: small ones under every configuration, and the counts of the
\* two end-to-end scenarios under the default configuration
QuizCounts(per_chunk) ==
  (1 .. MaxTarget) \cup (IF per_chunk = DefaultPerChunk THEN {5, 20} ELSE {})
FlashcardCounts == 1 .. MaxFlash

InitGen ==
  /\ settings \in [questions_per_chunk : PerChunkValues,
                   flashcards_per_chunk : {DefaultPerChunk}]
  /\ cache = << >>
  /\ pc = "idle"
  /\ request = NoRequest
  /\ questions_count = 0
  /\ flashcards_count = 0
  /\ reply = NoReply
  /\ rag_context = "none"
  /\ saved_questions = << >>
  /\ kind = "none"
  /\ target_count = 0
  /\ chunk_size = 0
  /\ num_calls = 0
  /\ call_index = 0
  /\ all_items = << >>
  /\ failed_calls = 0
  /\ current_chunk = 0
  /\ result = << >>
  /\ attempt = 0
  /\ response = EmptyString
  /\ outcome = "none"
  /\ llm_requests = 0
  /\ log = << >>
  /\ lastok = << >>

(***************************************************************************)
(* ContentGenerator helpers                                                *)
(***************************************************************************)
\* prompt_template.format(topic, context, target_count): topic and context are
\* those of the request, so the template and the count tell prompts apart
FormatPrompt(template, n) == <<template, n>>

\* the mutant of hash_content whose digest does not depend on the text
hash_nothing(p) == <<"md5", "">>
\* md5 of the text: distinct texts get distinct digests
hash_content(p) == <<"md5", p>>

\* a function extended or overwritten at one key (dict[key] = value)
Put(f, k, v) == [x \in (DOMAIN f) \cup {k} |-> IF x = k THEN v ELSE f[x]]

\* Python truthiness of a str-or-None value
Truthy(r) == r.kind = "str" /\ r.chars > 0

validate_quiz_item(item) ==
  /\ item.question # ""
  /\ item.correct_answer # ""
  /\ item.options # << >>
  /\ Len(item.options) >= 2

validate_flashcard_item(item) ==
  /\ item.question # ""
  /\ item.answer # ""

Validator(k, item) ==
  IF k = "questions" THEN validate_quiz_item(item) ELSE validate_flashcard_item(item)

RECURSIVE Filter(_, _)
\* [item for item in items if validator_func(item)]
Filter(k, items) ==
  IF items = << >> THEN << >>
  ELSE IF Validator(k, Head(items)) THEN <<Head(items)>> \o Filter(k, Tail(items))
       ELSE Filter(k, Tail(items))

\* the mutant of Take that forgets to slice
TakeAll(s, n) == s
\* Python s[:n] for n >= 0
Take(s, n) == SubSeq(s, 1, Min(n, Len(s)))

\* clean_json_response: the list parsed out of the text, [] for blank text
clean_json_response(r) == IF r.chars = 0 THEN << >> ELSE r.items

\* history: how many parsed items of r pass the validator of kind k
ValidCount(k, r) ==
  Len(Filter(k, SelectSeq(clean_json_response(r), LAMBDA it : it.dict)))

\* generate_json_items after generate_content returned r; item.get raises on a
\* value that is no dict and the except clause turns that into []
JsonItems(k, r, n) ==
  IF ~Truthy(r) THEN << >>
  ELSE LET items == clean_json_response(r)
       IN  IF items = << >> THEN << >>
           ELSE IF \E i \in 1 .. Len(items) : ~items[i].dict THEN << >>
           ELSE Take(Filter(k, items), n)

\* the mutant of CacheHit that never finds the key
CacheMiss(c, key) == FALSE
\* cache_key in self.cache
CacheHit(c, key) == key \in DOMAIN c

\* the mutant of Admit that stores every response
AdmitAny(c, r) == TRUE
\* response and len(response) > 50, and len(self.cache) < 1000
Admit(c, r) ==
  /\ Truthy(r)
  /\ r.chars > MinCachedLen
  /\ Cardinality(DOMAIN c) < GenCacheCap

\* the mutant of RetriesLeft that allows one retry more
RetriesLeftOneMore(a) == a < max_retries + 1
\* attempt < max_retries
RetriesLeft(a) == a < max_retries

\* round(x, 1) of x = generated / requested * 100, in tenths of a percent
RoundTenths(generated, requested) ==
  LET q == (generated * 1000) \div requested
      r == (generated * 1000) % requested
  IN  IF 2 * r < requested THEN q
      ELSE IF 2 * r > requested THEN q + 1
      ELSE IF q % 2 = 0 THEN q ELSE q + 1

\* the mutant of SuccessRate that reports the quiz part alone
QuizSuccessRate(qc, fc, rq) == RoundTenths(qc, rq.quiz_count)
\* success_rate of the whole request, rounded to one decimal (in tenths)
SuccessRate(qc, fc, rq) ==
  LET total_requested == rq.quiz_count + rq.flashcard_count
      total_generated == qc + fc
  IN  IF total_requested > 0 THEN RoundTenths(total_generated, total_requested) ELSE 1000

Status(qc, fc, rq) ==
  LET total_requested == rq.quiz_count + rq.flashcard_count
      total_generated == qc + fc
  IN  IF total_generated * 100 >= 90 * total_requested THEN "success"
      ELSE IF total_generated * 100 >= 50 * total_requested THEN "partial_success"
      ELSE "warning"

\* the mutant of NumCalls that rounds the budget down
NumCallsFloor(t, c) == t \div c
\* (target_count + chunk_size - 1) // chunk_size
NumCalls(t, c) == (t + c - 1) \div c

\* the mutant of Halve that keeps the chunk size
HalveNot(c) == c
\* max(1, chunk_size // 2)
Halve(c) == Max(1, c \div 2)

(***************************************************************************)
(* The generation request                                                  *)
(***************************************************************************)
\* the QuestionAnswer rows of an item: one per option, in order
AnswerRows(item) ==
  [j \in DOMAIN item.options |->
     [content |-> item.options[j], is_correct |-> item.options[j] = item.correct_answer]]
\* the Question row of an item with the QuestionAnswer rows it owns
QuestionRows(item) ==
  [content |-> item.question, correct_answer |-> item.correct_answer,
   answers |-> AnswerRows(item)]

\* process_rag_quiz_and_flashcards when the context is blank: the HTTPException
\* 400 noRelevantContext is raised inside the try block, whose except Exception
\* clause catches it and raises HTTPException 500 generationFailed
NoRelevantContext(q, f) ==
  /\ pc = "idle"
  /\ request' = [quiz_count |-> q, flashcard_count |-> f]
  /\ questions_count' = 0
  /\ flashcards_count' = 0
  /\ rag_context' = "empty"
  /\ saved_questions' = << >>
  /\ reply' = HTTPException(500, "generationFailed")
  /\ pc' = "done"
  /\ UNCHANGED <<settings, cache, runVars, gcVars, lastok>>
  /\ UNCHANGED outsideGen

\* process_rag_quiz_and_flashcards, up to the call of _generate_questions
StartRequest(q, f) ==
  /\ pc = "idle"
  /\ request' = [quiz_count |-> q, flashcard_count |-> f]
  /\ questions_count' = 0
  /\ flashcards_count' = 0
  /\ reply' = NoReply
  /\ rag_context' = "text"
  /\ saved_questions' = << >>
  /\ pc' = "questions"
  /\ UNCHANGED <<settings, cache, runVars, gcVars, lastok>>
  /\ UNCHANGED outsideGen

\* _generate_content_chunked, lines 132-134
EnterChunked(k, t, c) ==
  /\ kind' = k
  /\ target_count' = t
  /\ chunk_size' = c
  /\ num_calls' = NumCalls(t, c)
  /\ all_items' = << >>
  /\ failed_calls' = 0
  /\ call_index' = 0
  /\ current_chunk' = 0
  /\ result' = << >>
  /\ UNCHANGED log
  /\ attempt' = 0
  /\ response' = EmptyString
  /\ outcome' = "none"
  /\ llm_requests' = 0
  /\ pc' = "loop"
  /\ UNCHANGED <<settings, cache, reqVars, lastok>>
  /\ UNCHANGED outsideGen

generate_questions_chunked ==
  /\ pc = "questions"
  /\ EnterChunked("questions", request.quiz_count, settings.questions_per_chunk)

generate_flashcards_chunked ==
  /\ pc = "flashcards"
  /\ EnterChunked("flashcards", request.flashcard_count, settings.flashcards_per_chunk)

\* the head of one iteration of the chunked loop, up to the call of generate_content
LoopHead ==
  /\ pc = "loop"
  /\ LET cc == Min(chunk_size, target_count - Len(all_items))
     IN  IF call_index < num_calls /\ cc > 0
         THEN /\ current_chunk' = cc
              /\ log' = Append(log, [kind |-> kind, asked |-> cc, got |-> 0,
                                      valid |-> 0, invalid |-> 0, open |-> TRUE])
              /\ attempt' = 0
              /\ response' = EmptyString
              /\ outcome' = "none"
              /\ llm_requests' = 0
              /\ pc' = "attempt"
         ELSE /\ pc' = "loop_end"
              /\ UNCHANGED <<current_chunk, log, gcVars>>
  /\ UNCHANGED <<settings, cache, reqVars, kind, target_count, chunk_size, num_calls,
                 call_index, all_items, failed_calls, result, lastok>>
  /\ UNCHANGED outsideGen

\* generate_content: an attempt that finds the prompt in the cache
GenCacheHit ==
  /\ pc = "attempt"
  /\ LET key == hash_content(FormatPrompt(kind, current_chunk))
     IN  /\ CacheHit(cache, key)
         /\ response' = cache[key]
  /\ outcome' = "hit"
  /\ pc' = "returned"
  /\ UNCHANGED <<settings, cache, reqVars, runVars, attempt, llm_requests, lastok>>
  /\ UNCHANGED outsideGen

\* generate_content: an attempt whose completion request returns content c
LLMSuccess(c) ==
  /\ pc = "attempt"
  /\ LET p == FormatPrompt(kind, current_chunk)
         key == hash_content(p)
     IN  /\ ~CacheHit(cache, key)
         /\ cache' = IF Admit(cache, c) THEN Put(cache, key, c) ELSE cache
         /\ lastok' = IF Truthy(c)
                      THEN Put(lastok, p, [text |-> c, size |-> Cardinality(DOMAIN cache)])
                      ELSE lastok
  /\ llm_requests' = llm_requests + 1
  /\ response' = c
  /\ outcome' = "ok"
  /\ pc' = "returned"
  /\ UNCHANGED <<settings, reqVars, runVars, attempt>>
  /\ UNCHANGED outsideGen

\* generate_content: an attempt whose completion request raises (rate limit or other)
LLMFailure(e) ==
  /\ pc = "attempt"
  /\ ~CacheHit(cache, hash_content(FormatPrompt(kind, current_chunk)))
  /\ llm_requests' = llm_requests + 1
  /\ outcome' = e
  /\ IF RetriesLeft(attempt)
     THEN /\ pc' = "sleep"
          /\ UNCHANGED response
     ELSE /\ response' = EmptyString
          /\ pc' = "returned"
  /\ UNCHANGED <<settings, cache, reqVars, runVars, attempt, lastok>>
  /\ UNCHANGED outsideGen

\* time.sleep(delay); continue
Backoff ==
  /\ pc = "sleep"
  /\ attempt' = attempt + 1
  /\ pc' = "attempt"
  /\ UNCHANGED <<settings, cache, reqVars, runVars, response, outcome, llm_requests, lastok>>
  /\ UNCHANGED outsideGen

\* the rest of generate_json_items and of the loop body, lines 105-124 and 150-162
EndCall ==
  /\ pc = "returned"
  /\ LET items == JsonItems(kind, response, current_chunk)
         grown == IF items # << >> THEN all_items \o items ELSE all_items
         failed == IF items # << >> THEN failed_calls ELSE failed_calls + 1
     IN  /\ all_items' = grown
         /\ failed_calls' = failed
         /\ chunk_size' = IF items = << >> /\ failed >= 2 /\ 2 * Len(grown) < target_count
                          THEN Halve(chunk_size)
                          ELSE chunk_size
         /\ log' = [log EXCEPT ![Len(log)] =
                      [kind |-> kind, asked |-> current_chunk, got |-> Len(items),
                       valid |-> ValidCount(kind, response),
                       invalid |-> Len(clean_json_response(response))
                                     - ValidCount(kind, response),
                       open |-> FALSE]]
         /\ IF Len(grown) >= target_count
            THEN /\ pc' = "loop_end"
                 /\ UNCHANGED call_index
            ELSE /\ call_index' = call_index + 1
                 /\ pc' = "loop"
  /\ UNCHANGED <<settings, cache, reqVars, kind, target_count, num_calls, current_chunk,
                 result, gcVars, lastok>>
  /\ UNCHANGED outsideGen

\* return all_items[:target_count]
ReturnChunked ==
  /\ pc = "loop_end"
  /\ result' = Take(all_items, target_count)
  /\ pc' = "save"
  /\ UNCHANGED <<settings, cache, reqVars, kind, target_count, chunk_size, num_calls,
                 call_index, all_items, failed_calls, current_chunk, log, gcVars, lastok>>
  /\ UNCHANGED outsideGen

\* _generate_questions / _generate_flashcards: one row per returned item, total_saved
SaveItems ==
  /\ pc = "save"
  /\ IF kind = "questions"
     THEN /\ questions_count' = Len(result)
          /\ saved_questions' = [i \in DOMAIN result |-> QuestionRows(result[i])]
          /\ pc' = "flashcards"
          /\ UNCHANGED flashcards_count
     ELSE /\ flashcards_count' = Len(result)
          /\ pc' = "respond"
          /\ UNCHANGED <<questions_count, saved_questions>>
  /\ UNCHANGED <<settings, cache, request, reply, rag_context, runVars, gcVars, lastok>>
  /\ UNCHANGED outsideGen

\* _generate_questions / _generate_flashcards when db.commit() raises: the except
\* clause of process_rag_quiz_and_flashcards raises HTTPException 500
SaveFails ==
  /\ pc = "save"
  /\ reply' = HTTPException(500, "generationFailed")
  /\ pc' = "done"
  /\ UNCHANGED <<settings, cache, request, questions_count, flashcards_count,
                 rag_context, saved_questions, runVars, gcVars, lastok>>
  /\ UNCHANGED outsideGen

\* process_rag_quiz_and_flashcards, lines 54-72
Respond ==
  /\ pc = "respond"
  /\ reply' = [status_code |-> 200, translation_key |-> "none",
               status |-> Status(questions_count, flashcards_count, request),
               questions_generated |-> questions_count,
               flashcards_generated |-> flashcards_count,
               success_rate |-> SuccessRate(questions_count, flashcards_count, request),
               warnings |-> (IF questions_count < request.quiz_count THEN 1 ELSE 0)
                            + (IF flashcards_count < request.flashcard_count THEN 1 ELSE 0)]
  /\ pc' = "done"
  /\ UNCHANGED <<settings, cache, request, questions_count, flashcards_count,
                 rag_context, saved_questions, runVars, gcVars, lastok>>
  /\ UNCHANGED outsideGen

\* ContentGenerator.clear_cache, between requests
clear_cache ==
  /\ pc \in {"idle", "done"}
  /\ cache' = << >>
  /\ lastok' = << >>
  /\ UNCHANGED <<settings, pc, reqVars, runVars, gcVars>>
  /\ UNCHANGED outsideGen

NextGen ==
  \/ \E q \in QuizCounts(settings.questions_per_chunk), f \in FlashcardCounts :
       StartRequest(q, f)
  \/ \E q \in QuizCounts(settings.questions_per_chunk), f \in FlashcardCounts :
       NoRelevantContext(q, f)
  \/ generate_questions_chunked
  \/ generate_flashcards_chunked
  \/ LoopHead
  \/ GenCacheHit
  \/ \E c \in LLMContents : LLMSuccess(c)
  \/ \E e \in LLMErrors : LLMFailure(e)
  \/ Backoff
  \/ EndCall
  \/ ReturnChunked
  \/ SaveItems
  \/ SaveFails
  \/ Respond
  \/ clear_cache


(***************************************************************************)
(* Embedding cache, embedding engine and chunk-and-embed pipeline          *)
(* (vector_processor.py)                                                   *)
(***************************************************************************)
\* database sessions that can be inside chunk_and_embed_document
Callers == {1, 2}
Docs == {"d1", "d2"}
ChunkTexts == {"a", "b"}
\* a document text, given as the chunk list the splitter turns it into
TextContents == SeqsUpTo(ChunkTexts, MaxChunks)

NoVector == << >>
\* model.encode(t, normalize_embeddings=True): a unit vector, here scaled by 5
ModelVector(t) ==
  CASE t = "a" -> <<3, 4>>
    [] t = "b" -> <<4, 3>>
    [] t = "c" -> <<5, 0>>
    [] OTHER   -> <<0, 5>>

\* how a caller's last call ended: returned or raised (and what raised), the
\* rows returned, and whether the existence query had found rows
NoReturn == [status |-> "none", error |-> "none", rows |-> {}, existing |-> FALSE]
Returned(rs, found) ==
  [status |-> "returned", error |-> "none", rows |-> rs, existing |-> found]
Raised(e) == [status |-> "raised", error |-> e, rows |-> {}, existing |-> FALSE]

InitVecState ==
  /\ embedding_cache = << >>
  /\ rows = {}
  /\ next_id = 1
  /\ vpc = [p \in Callers |-> "idle"]
  /\ doc = [p \in Callers |-> "d1"]
  /\ chunks = [p \in Callers |-> << >>]
  /\ embeddings = [p \in Callers |-> << >>]
  /\ ret = [p \in Callers |-> NoReturn]
  /\ calls = 0
  /\ encoded = << >>
  /\ created = [d \in Docs |-> {}]
  /\ overlap = [d \in Docs |-> FALSE]

\* the process right after construction, with the configured cache capacity
InitVec == max_size \in 1 .. MaxCap /\ InitVecState

(***************************************************************************)
(* SimpleCache                                                             *)
(***************************************************************************)
CacheKeys(c) == {c[i].key : i \in DOMAIN c}

\* self.cache.get(key): the value, or None
SimpleCache_get(c, key) ==
  IF key \in CacheKeys(c)
  THEN (CHOOSE e \in {c[i] : i \in DOMAIN c} : e.key = key).value
  ELSE NoVector

\* self.cache[key] = value: an existing key keeps its place in the order
DictStore(c, key, value) ==
  IF key \in CacheKeys(c)
  THEN [i \in DOMAIN c |-> IF c[i].key = key THEN [key |-> key, value |-> value] ELSE c[i]]
  ELSE Append(c, [key |-> key, value |-> value])

\* the mutant of SimpleCache_set that pops the key inserted last
SetPopsNewest(c, cap, key, value) ==
  DictStore(IF Len(c) >= cap THEN SubSeq(c, 1, Len(c) - 1) ELSE c, key, value)
\* SimpleCache.set: at capacity the first key in iteration order is popped
SimpleCache_set(c, cap, key, value) ==
  DictStore(IF Len(c) >= cap THEN Tail(c) ELSE c, key, value)

(***************************************************************************)
(* VectorProcessor.create_embeddings                                       *)
(***************************************************************************)
RECURSIVE Lookup(_, _, _)
\* the cache lookup loop from position i on: (index, vector) for hits,
\* (index, None) for texts to embed, in input order
Lookup(c, texts, i) ==
  IF i > Len(texts) THEN << >>
  ELSE <<[i |-> i, v |-> SimpleCache_get(c, hash_content(texts[i]))]>>
         \o Lookup(c, texts, i + 1)

RECURSIVE Populate(_, _, _, _)
\* the cache update loop over zip(texts_to_embed, new_embeddings)
Populate(c, cap, to_embed, new) ==
  IF to_embed = << >> \/ new = << >> THEN c
  ELSE Populate(SimpleCache_set(c, cap, hash_content(Head(to_embed)), Head(new)),
                cap, Tail(to_embed), Tail(new))

RECURSIVE Zip(_, _)
\* zip(text_indices, new_embeddings) as (index, vector) pairs
Zip(indices, new) ==
  IF indices = << >> \/ new = << >> THEN << >>
  ELSE <<[i |-> Head(indices), v |-> Head(new)]>> \o Zip(Tail(indices), Tail(new))

RECURSIVE Insert(_, _)
Insert(e, sorted) ==
  IF sorted = << >> THEN <<e>>
  ELSE IF e.i < Head(sorted).i THEN <<e>> \o sorted
  ELSE <<Head(sorted)>> \o Insert(e, Tail(sorted))

RECURSIVE SortedByIndex(_)
\* the mutant of SortByIndex that leaves hits before misses
Unsorted(pairs) == pairs
\* embeddings.sort(key=lambda x: x[0])
SortByIndex(pairs) == SortedByIndex(pairs)
SortedByIndex(pairs) ==
  IF pairs = << >> THEN << >> ELSE Insert(Head(pairs), SortedByIndex(Tail(pairs)))

\* model.encode(texts_to_embed): one vector per text
Encode(to_embed) == [k \in DOMAIN to_embed |-> ModelVector(to_embed[k])]

\* create_embeddings(texts) with cache c when model.encode does not raise:
\* the list returned, the cache afterwards, and the texts passed to the model
create_embeddings(c, cap, texts) ==
  LET looked == Lookup(c, texts, 1)
      hits == SelectSeq(looked, LAMBDA e : e.v # NoVector)
      misses == SelectSeq(looked, LAMBDA e : e.v = NoVector)
      text_indices == [k \in DOMAIN misses |-> misses[k].i]
      texts_to_embed == [k \in DOMAIN misses |-> texts[misses[k].i]]
      new_embeddings == Encode(texts_to_embed)
      merged == SortByIndex(hits \o Zip(text_indices, new_embeddings))
  IN  [out |-> [k \in DOMAIN merged |-> merged[k].v],
       cache |-> IF texts_to_embed # << >>
                 THEN Populate(c, cap, texts_to_embed, new_embeddings)
                 ELSE c,
       encoded |-> texts_to_embed]

(***************************************************************************)
(* VectorProcessor.chunk_and_embed_document                                *)
(***************************************************************************)
RowsOf(d) == {r \in rows : r.document_id = d}

\* the mutant of HasChunks that skips the existence check
NeverHasChunks(d) == FALSE
\* db.query(DocumentChunk).filter(document_id == d).first() is not None
HasChunks(d) == RowsOf(d) # {}

\* chunk_objects: row i - 1 of document d for chunk i, with fresh ids from first on
ChunkObjects(d, chs, embs, first) ==
  {[id |-> first + i - 1, document_id |-> d, chunk_index |-> i - 1,
    content |-> chs[i], embedding |-> embs[i]] : i \in 1 .. Min(Len(chs), Len(embs))}

\* the mutant of RolledBack that keeps the first row of the failed write
PartlyWritten(committed, new) ==
  committed \cup {r \in new : r.chunk_index = 0}
\* the table after a failed bulk insert or commit and db.rollback()
RolledBack(committed, new) == committed

\* a call starts: chunk_and_embed_document(db, d, text)
Call(p, d, t) ==
  /\ vpc[p] = "idle"
  /\ calls < MaxCalls
  /\ calls' = calls + 1
  /\ vpc' = [vpc EXCEPT ![p] = "check"]
  /\ doc' = [doc EXCEPT ![p] = d]
  /\ chunks' = [chunks EXCEPT ![p] = t]
  /\ ret' = [ret EXCEPT ![p] = NoReturn]
  /\ encoded' = << >>
  /\ UNCHANGED <<max_size, embedding_cache, rows, next_id, embeddings, created, overlap>>
  /\ UNCHANGED outsideVec

\* the call of p ends: its locals go away, r is what the caller gets
Return(p, r) ==
  /\ ret' = [ret EXCEPT ![p] = r]
  /\ vpc' = [vpc EXCEPT ![p] = "idle"]
  /\ chunks' = [chunks EXCEPT ![p] = << >>]
  /\ embeddings' = [embeddings EXCEPT ![p] = << >>]

\* lines 94-110: the existence query, the early return, the split
Check(p) ==
  /\ vpc[p] = "check"
  /\ IF HasChunks(doc[p])
     THEN /\ Return(p, Returned(RowsOf(doc[p]), TRUE))
          /\ UNCHANGED overlap
     ELSE IF chunks[p] = << >>
     THEN /\ Return(p, Returned({}, FALSE))
          /\ UNCHANGED overlap
     ELSE /\ vpc' = [vpc EXCEPT ![p] = "embed"]
          /\ overlap' = [overlap EXCEPT ![doc[p]] =
                           @ \/ \E q \in Callers \ {p} :
                                  doc[q] = doc[p] /\ vpc[q] \in {"embed", "insert"}]
          /\ UNCHANGED <<chunks, embeddings, ret>>
  /\ encoded' = << >>
  /\ UNCHANGED <<max_size, embedding_cache, rows, next_id, doc, calls, created>>
  /\ UNCHANGED outsideVec

\* line 114 and the count check of lines 116-117, the model not raising
Embed(p) ==
  /\ vpc[p] = "embed"
  /\ LET e == create_embeddings(embedding_cache, max_size, chunks[p])
     IN  /\ embedding_cache' = e.cache
         /\ encoded' = e.encoded
         /\ IF Len(e.out) # Len(chunks[p])
            THEN /\ Return(p, Raised("ValueError"))
                 /\ rows' = RolledBack(rows, {})
            ELSE /\ vpc' = [vpc EXCEPT ![p] = "insert"]
                 /\ embeddings' = [embeddings EXCEPT ![p] = e.out]
                 /\ UNCHANGED <<rows, chunks, ret>>
  /\ UNCHANGED <<max_size, next_id, doc, calls, created, overlap>>
  /\ UNCHANGED outsideVec

\* line 114 when model.encode raises: create_embeddings re-raises, the except
\* clause of chunk_and_embed_document rolls back and raises
EmbedFails(p) ==
  /\ vpc[p] = "embed"
  /\ create_embeddings(embedding_cache, max_size, chunks[p]).encoded # << >>
  /\ encoded' = create_embeddings(embedding_cache, max_size, chunks[p]).encoded
  /\ rows' = RolledBack(rows, {})
  /\ Return(p, Raised("embedding"))
  /\ UNCHANGED <<max_size, embedding_cache, next_id, doc, calls, created, overlap>>
  /\ UNCHANGED outsideVec

\* lines 119-152: bulk_insert_mappings and commit succeed
Commit(p) ==
  /\ vpc[p] = "insert"
  /\ LET new == ChunkObjects(doc[p], chunks[p], embeddings[p], next_id)
     IN  /\ rows' = rows \cup new
         /\ next_id' = next_id + Len(chunks[p])
         /\ Return(p, Returned(new, FALSE))
         /\ created' = [created EXCEPT ![doc[p]] = IF @ = {} THEN new ELSE @]
  /\ encoded' = << >>
  /\ UNCHANGED <<max_size, embedding_cache, doc, calls, overlap>>
  /\ UNCHANGED outsideVec

\* lines 136-150 when the bulk insert or the commit raises: db.rollback(), raise
CommitFails(p) ==
  /\ vpc[p] = "insert"
  /\ rows' = RolledBack(rows, ChunkObjects(doc[p], chunks[p], embeddings[p], next_id))
  /\ Return(p, Raised("write"))
  /\ encoded' = << >>
  /\ UNCHANGED <<max_size, embedding_cache, next_id, doc, calls, created, overlap>>
  /\ UNCHANGED outsideVec

\* VectorProcessor.cleanup_cache
cleanup_cache ==
  /\ embedding_cache # << >>
  /\ embedding_cache' = << >>
  /\ encoded' = << >>
  /\ UNCHANGED <<max_size, rows, next_id, vpc, doc, chunks, embeddings, ret,
                 calls, created, overlap>>
  /\ UNCHANGED outsideVec

(***************************************************************************)
(* Direct calls of the embedding engine                                    *)
(***************************************************************************)
NoEmbCall == [texts |-> << >>, out |-> << >>, again |-> {}]
NoSearch == [query |-> "", document_ids |-> {}, top_k |-> 0, results |-> << >>]
NoContext == [max_context_length |-> 0, parts |-> << >>, chars |-> 0]

InitSrch ==
  /\ emb_call = NoEmbCall
  /\ seen = << >>
  /\ search = NoSearch
  /\ context = NoContext

\* the texts of a batch handed to create_embeddings
EmbedTexts == ChunkTexts \cup {"c"}
EmbedBatches == SeqsUpTo(EmbedTexts, MaxChunks)

RECURSIVE Remember(_, _, _)
\* history: seen extended by the vectors returned for texts not embedded before
Remember(sn, texts, out) ==
  IF texts = << >> \/ out = << >> THEN sn
  ELSE Remember(IF Head(texts) \in DOMAIN sn THEN sn ELSE Put(sn, Head(texts), Head(out)),
                Tail(texts), Tail(out))

\* create_embeddings(texts) called on the shared VectorProcessor, the model answering
CreateEmbeddings(texts) ==
  /\ LET e == create_embeddings(embedding_cache, max_size, texts)
     IN  /\ embedding_cache' = e.cache
         /\ encoded' = e.encoded
         /\ emb_call' = [texts |-> texts, out |-> e.out,
                         again |-> {texts[i] : i \in DOMAIN texts} \cap DOMAIN seen]
         /\ seen' = Remember(seen, texts, e.out)
  /\ UNCHANGED <<max_size, rows, next_id, vpc, doc, chunks, embeddings, ret, calls,
                 created, overlap>>
  /\ UNCHANGED <<outsideSrch, search, context>>

\* create_embeddings(texts) when model.encode raises: logged and re-raised, the
\* cache as it was
CreateEmbeddingsFails(texts) ==
  /\ create_embeddings(embedding_cache, max_size, texts).encoded # << >>
  /\ encoded' = create_embeddings(embedding_cache, max_size, texts).encoded
  /\ emb_call' = NoEmbCall
  /\ UNCHANGED <<max_size, embedding_cache, rows, next_id, vpc, doc, chunks, embeddings,
                 ret, calls, created, overlap>>
  /\ UNCHANGED <<outsideSrch, seen, search, context>>

(***************************************************************************)
(* VectorProcessor.similarity_search                                       *)
(***************************************************************************)
\* chunk texts of the documents persisted before retrieval starts
StoredTexts == {"a", "b", "c"}
\* table document_chunks as chunk_and_embed_document leaves it after the two
\* documents were ingested with the contents t1 and t2 (an empty one has no rows)
TableOf(t1, t2) ==
  ChunkObjects("d1", t1, Encode(t1), 1) \cup ChunkObjects("d2", t2, Encode(t2), 1 + Len(t1))
\* d1 is a document of up to MaxChunks chunks, d2 one of at most a single chunk
Tables ==
  {TableOf(t1, t2) : t1 \in SeqsUpTo(StoredTexts, MaxChunks), t2 \in SeqsUpTo(StoredTexts, 1)}

\* queries: two texts and a blank string
Queries == {"a", "q", " "}
\* not query.strip()
Blank(q) == q = " "
\* document_ids: no list given (None), or a list, as the set of its ids
NoneIds == {"None"}
DocumentIdLists == {NoneIds} \cup SUBSET Docs
TopKs == (1 .. MaxTopK) \cup {retrieval_top_k}

\* 1 - (embedding <=> :query_embedding), the cosine similarity, in fiftieths:
\* the vectors are unit vectors scaled by 5
SimilarityScore(u, v) == 2 * (u[1] * v[1] + u[2] * v[2])

\* the mutant of AboveThreshold that keeps every row
AnyScore(score) == TRUE
\* row.similarity_score >= settings.rag.similarity_threshold
AboveThreshold(score) == score >= similarity_threshold

\* 'if document_ids:' is false for None and for the empty list
Given(ids) == ids # NoneIds /\ ids # {}

\* WHERE document_id IN (...), only when document_ids is truthy; with the score
Selected(table, qv, ids) ==
  {[id |-> r.id, document_id |-> r.document_id, chunk_index |-> r.chunk_index,
    content |-> r.content, similarity_score |-> SimilarityScore(r.embedding, qv)] :
     r \in {x \in table : ~Given(ids) \/ x.document_id \in ids}}

RECURSIVE OrderedDesc(_)
\* ORDER BY similarity_score DESC: every order the database may give, rows of
\* equal score in any order
OrderedDesc(S) ==
  IF S = {} THEN {<< >>}
  ELSE LET top == {r \in S : \A x \in S : r.similarity_score >= x.similarity_score}
       IN  UNION {{<<r>> \o rest : rest \in OrderedDesc(S \ {r})} : r \in top}

\* lines 195-206: the rows at or above the threshold, in the order fetched
SearchResults(fetched) ==
  SelectSeq(fetched, LAMBDA r : AboveThreshold(r.similarity_score))

\* similarity_search(db, query, document_ids, top_k), nothing raising
SearchStep(query, ids, k) ==
  IF Blank(query)
  THEN /\ search' = [query |-> query, document_ids |-> ids, top_k |-> k, results |-> << >>]
       /\ UNCHANGED <<embedding_cache, encoded>>
  ELSE LET e == create_embeddings(embedding_cache, max_size, <<query>>)
       IN  /\ embedding_cache' = e.cache
           /\ encoded' = e.encoded
           /\ \E fetched \in OrderedDesc(Selected(rows, e.out[1], ids)) :
                search' = [query |-> query, document_ids |-> ids, top_k |-> k,
                           results |-> SearchResults(Take(fetched, k))]

similarity_search(query, ids, k) ==
  /\ search = NoSearch
  /\ SearchStep(query, ids, k)
  /\ context' = NoContext
  /\ UNCHANGED <<max_size, rows, next_id, vpc, doc, chunks, embeddings, ret, calls,
                 created, overlap>>
  /\ UNCHANGED <<outsideSrch, emb_call, seen>>

\* similarity_search when model.encode or db.execute raises: the except clause
\* returns []; the cache holds the query's vector if the model had answered
SearchFailsStep(query, ids, k) ==
  /\ ~Blank(query)
  /\ LET e == create_embeddings(embedding_cache, max_size, <<query>>)
     IN  /\ encoded' = e.encoded
         /\ \/ e.encoded # << >> /\ UNCHANGED embedding_cache
            \/ embedding_cache' = e.cache
  /\ search' = [query |-> query, document_ids |-> ids, top_k |-> k, results |-> << >>]

SimilaritySearchFails(query, ids, k) ==
  /\ search = NoSearch
  /\ SearchFailsStep(query, ids, k)
  /\ context' = NoContext
  /\ UNCHANGED <<max_size, rows, next_id, vpc, doc, chunks, embeddings, ret, calls,
                 created, overlap>>
  /\ UNCHANGED <<outsideSrch, emb_call, seen>>

(***************************************************************************)
(* VectorProcessor.get_relevant_context                                    *)
(***************************************************************************)
\* len(content.strip()) of a chunk text: two long chunks and a short one
ContentChars(t) ==
  CASE t = "a" -> 1200
    [] t = "b" -> 1100
    [] OTHER   -> 40

\* max_context_length as passed by callers: the configured one, one that the
\* best chunk fills exactly, one that leaves too little room for a second
\* piece, and two that the best chunk does not fit into
ContextLengths == {max_context_length, 1200, 1250, 1000, min_context_chars}

RECURSIVE PackedParts(_, _, _)
\* the mutant of ContextParts that packs best-fit: it skips a chunk that does
\* not fit and goes on with the next
PackedParts(results, current_length, max_len) ==
  IF results = << >> THEN << >>
  ELSE LET content_length == ContentChars(Head(results).content)
       IN  IF current_length + content_length <= max_len
           THEN <<[content |-> Head(results).content, chars |-> content_length,
                   truncated |-> FALSE]>>
                  \o PackedParts(Tail(results), current_length + content_length, max_len)
           ELSE PackedParts(Tail(results), current_length, max_len)

RECURSIVE ContextParts(_, _, _)
\* the loop of lines 233-245 over the results left, current_length so far
ContextParts(results, current_length, max_len) ==
  IF results = << >> THEN << >>
  ELSE LET content_length == ContentChars(Head(results).content)
           remaining_space == max_len - current_length
       IN  IF current_length + content_length <= max_len
           THEN <<[content |-> Head(results).content, chars |-> content_length,
                   truncated |-> FALSE]>>
                  \o ContextParts(Tail(results), current_length + content_length, max_len)
           ELSE IF remaining_space > min_context_chars
           THEN <<[content |-> Head(results).content,
                   chars |-> (remaining_space - MarkerChars) + MarkerChars,
                   truncated |-> TRUE]>>
           ELSE << >>

RECURSIVE SumChars(_)
SumChars(parts) == IF parts = << >> THEN 0 ELSE Head(parts).chars + SumChars(Tail(parts))

\* len(settings.vector.context_separator.join(context_parts))
JoinedChars(parts) ==
  IF parts = << >> THEN 0 ELSE SumChars(parts) + SeparatorChars * (Len(parts) - 1)

\* what get_relevant_context returns for the search results
Assemble(results, max_len) ==
  LET parts == IF results = << >> THEN << >> ELSE ContextParts(results, 0, max_len)
  IN  [max_context_length |-> max_len, parts |-> parts, chars |-> JoinedChars(parts)]

\* get_relevant_context(db, topic, document_ids, max_context_length); a failing
\* similarity_search has returned [] and the context is ""
get_relevant_context(topic, ids, max_len) ==
  /\ search = NoSearch
  /\ \/ SearchStep(topic, ids, retrieval_top_k)
     \/ SearchFailsStep(topic, ids, retrieval_top_k)
  /\ context' = Assemble(search'.results, max_len)
  /\ UNCHANGED <<max_size, rows, next_id, vpc, doc, chunks, embeddings, ret, calls,
                 created, overlap>>
  /\ UNCHANGED <<outsideSrch, emb_call, seen>>

\* the caller has taken the result of the last retrieval call
TakeResult ==
  /\ search # NoSearch
  /\ search' = NoSearch
  /\ context' = NoContext
  /\ encoded' = << >>
  /\ UNCHANGED <<max_size, embedding_cache, rows, next_id, vpc, doc, chunks, embeddings,
                 ret, calls, created, overlap>>
  /\ UNCHANGED <<outsideSrch, emb_call, seen>>

(***************************************************************************)
(* Document ingestion (document_process_service.py)                        *)
(***************************************************************************)
\* uuid4 document ids, in the order the requests draw them
DocumentIds == 1 .. MaxDocs
\* _detect_source_type, as far as storage is concerned: an upload has a stored
\* source file, a url (web, youtube) has none
SourceTypes == {"upload", "web"}
\* session_id is an optional argument; there is one session
SessionIds == {"none", "s1"}

NoDocument == [processing_status |-> "none", source_type |-> "none", session_id |-> "none"]
DocumentCompleted(source_type, session_id) ==
  [processing_status |-> "completed", source_type |-> source_type, session_id |-> session_id]
\* the row lines 175-197 build
Document(source_type, session_id) ==
  [processing_status |-> "processing", source_type |-> source_type, session_id |-> session_id]

\* cause: the exception the except clause of line 206 caught and logged
NoIngest == [pc |-> "idle", document_id |-> 0, source_type |-> "none",
             session_id |-> "none", status_code |-> 0, translation_key |-> "none",
             cause |-> "none"]

InitIng ==
  /\ documents = [d \in DocumentIds |-> NoDocument]
  /\ files = {}
  /\ chunk_rows = [d \in DocumentIds |-> 0]
  /\ total_documents = 0
  /\ ingest = NoIngest
  /\ embedded = {}

\* the files lines 138-166 store for a source, in the order they store them
StoredFiles(source_type, d) ==
  IF source_type = "upload" THEN << <<"source", d>>, <<"content", d>> >>
  ELSE << <<"content", d>> >>
FilesOf(source_type, d) ==
  {StoredFiles(source_type, d)[i] : i \in DOMAIN StoredFiles(source_type, d)}

\* SessionService.update_session_documents (it swallows its own failures)
update_session_documents(total, session_id, increment) ==
  IF session_id = "none" THEN total
  ELSE IF increment THEN total + 1
  ELSE IF total > 0 THEN total - 1 ELSE total

\* process_file / process_url up to line 200: the source is stored and turned
\* into text, the text is stored, the Document row is committed.  Column
\* session_id is not nullable (models/document.py line 29): without a session
\* the commit of line 199 raises
CreateDocument(source_type, session_id) ==
  /\ ingest.pc \in {"idle", "done"}
  /\ ingest.document_id < MaxDocs
  /\ session_id # "none"
  /\ session_id \in sessions
  /\ LET d == ingest.document_id + 1
     IN  /\ files' = files \cup FilesOf(source_type, d)
         /\ documents' = [documents EXCEPT ![d] = Document(source_type, session_id)]
         /\ ingest' = [NoIngest EXCEPT !.pc = "embed", !.document_id = d,
                                       !.source_type = source_type,
                                       !.session_id = session_id]
  /\ UNCHANGED <<chunk_rows, total_documents, embedded>>
  /\ UNCHANGED outsideIng

\* lines 137-200 raise after n files were stored: the except clause of lines
\* 206-215 rolls back and raises
CreateDocumentFails(source_type, session_id, n) ==
  /\ ingest.pc \in {"idle", "done"}
  /\ ingest.document_id < MaxDocs
  /\ n \in 0 .. Len(StoredFiles(source_type, ingest.document_id + 1))
  /\ LET d == ingest.document_id + 1
     IN  /\ files' = files \cup {StoredFiles(source_type, d)[i] : i \in 1 .. n}
         /\ ingest' = [NoIngest EXCEPT !.pc = "done", !.document_id = d,
                                       !.source_type = source_type,
                                       !.session_id = session_id,
                                       !.status_code = 500,
                                       !.translation_key = "documentProcessingFailed",
                                       !.cause = "Exception"]
  /\ UNCHANGED <<documents, chunk_rows, total_documents, embedded>>
  /\ UNCHANGED outsideIng

\* line 219: chunk_and_embed_document returns the n chunks it committed
ChunkAndEmbedReturns(n) ==
  /\ ingest.pc = "embed"
  /\ chunk_rows' = [chunk_rows EXCEPT ![ingest.document_id] = n]
  /\ embedded' = embedded \cup {ingest.document_id}
  /\ ingest' = [ingest EXCEPT !.pc = "complete"]
  /\ UNCHANGED <<documents, files, total_documents>>
  /\ UNCHANGED outsideIng

\* line 219: chunk_and_embed_document raises, having rolled back
ChunkAndEmbedRaises ==
  /\ ingest.pc = "embed"
  /\ ingest' = [ingest EXCEPT !.pc = "cleanup"]
  /\ UNCHANGED <<documents, files, chunk_rows, total_documents, embedded>>
  /\ UNCHANGED outsideIng

\* lines 220-224 and 204
MarkCompleted ==
  /\ ingest.pc = "complete"
  /\ documents' = [documents EXCEPT ![ingest.document_id].processing_status = "completed"]
  /\ total_documents' = update_session_documents(total_documents, ingest.session_id, TRUE)
  /\ ingest' = [ingest EXCEPT !.pc = "done", !.status_code = 200]
  /\ UNCHANGED <<files, chunk_rows, embedded>>
  /\ UNCHANGED outsideIng

\* line 221: the commit of the new status raises
MarkCompletedFails ==
  /\ ingest.pc = "complete"
  /\ ingest' = [ingest EXCEPT !.pc = "cleanup"]
  /\ UNCHANGED <<documents, files, chunk_rows, total_documents, embedded>>
  /\ UNCHANGED outsideIng

\* lines 225-236 with _cleanup_document, and lines 206-215 for the exception
\* raised at line 230.  kept: the files whose deletion failed (the provider
\* returns False, or raises and line 245 logs it); db_ok: whether db.delete and
\* db.commit of lines 247-248 went through (lines 250-252 roll back otherwise)
CleanupDocument(kept, db_ok) ==
  /\ ingest.pc = "cleanup"
  /\ kept \subseteq FilesOf(ingest.source_type, ingest.document_id)
  /\ files' = (files \ FilesOf(ingest.source_type, ingest.document_id)) \cup (kept \cap files)
  /\ IF db_ok
     THEN /\ documents' = [documents EXCEPT ![ingest.document_id] = NoDocument]
          /\ chunk_rows' = [chunk_rows EXCEPT ![ingest.document_id] = 0]
     ELSE UNCHANGED <<documents, chunk_rows>>
  /\ total_documents' = update_session_documents(total_documents, ingest.session_id, FALSE)
  /\ ingest' = [ingest EXCEPT !.pc = "done", !.status_code = 500,
                              !.translation_key = "documentProcessingFailed",
                              !.cause = "embeddingFailed"]
  /\ UNCHANGED embedded
  /\ UNCHANGED outsideIng

(***************************************************************************)
(* Sessions and deletions (session_service.py, document_service.py)        *)
(***************************************************************************)
NoRemoval == [op |-> "none", rows |-> 0, status_code |-> 0]

InitStore ==
  /\ sessions = {}
  /\ removal = NoRemoval

\* the documents of a session
DocumentsOf(session_id) == {d \in DocumentIds : documents[d].session_id = session_id}

\* the mutant of OnDeleteCascade that leaves the chunks of deleted documents
NoCascade(rows_of, gone) == rows_of
\* ForeignKey("documents.id", ondelete="CASCADE") on document_chunks.document_id:
\* deleting documents rows deletes their chunks
OnDeleteCascade(rows_of, gone) == [d \in DOMAIN rows_of |-> IF d \in gone THEN 0 ELSE rows_of[d]]

\* SessionService.create_session: total_documents takes the column default
CreateSession ==
  /\ ingest.pc \in {"idle", "done"}
  /\ "s1" \notin sessions
  /\ sessions' = sessions \cup {"s1"}
  /\ total_documents' = 0
  /\ UNCHANGED <<documents, files, chunk_rows, ingest, embedded, removal>>
  /\ UNCHANGED outsideStore

\* DocumentService.delete_document(d).  A missing document is a 404 that
\* _handle_db_operation turns into a rollback and a 500.  kept: the files
\* whose deletion failed (logged at line 78); db_ok: whether the deletes and the
\* commit of lines 43-47 went through (rolled back otherwise, the counter
\* not touched)
DeleteDocument(d, kept, db_ok) ==
  /\ ingest.pc \in {"idle", "done"}
  /\ IF documents[d] = NoDocument
     THEN /\ kept = {} /\ db_ok
          /\ removal' = [NoRemoval EXCEPT !.op = "delete_document",
                                          !.status_code = 500]
          /\ UNCHANGED <<documents, files, chunk_rows, total_documents>>
     ELSE /\ kept \subseteq FilesOf(documents[d].source_type, d)
          /\ files' = (files \ FilesOf(documents[d].source_type, d)) \cup (kept \cap files)
          /\ IF db_ok
             THEN /\ chunk_rows' = [chunk_rows EXCEPT ![d] = 0]
                  /\ documents' = [documents EXCEPT ![d] = NoDocument]
                  /\ total_documents' =
                       update_session_documents(total_documents, documents[d].session_id,
                                                FALSE)
                  /\ removal' = [NoRemoval EXCEPT !.op = "delete_document",
                                                  !.rows = chunk_rows[d],
                                                  !.status_code = 200]
             ELSE /\ removal' = [NoRemoval EXCEPT !.op = "delete_document",
                                                  !.status_code = 500]
                  /\ UNCHANGED <<documents, chunk_rows, total_documents>>
  /\ UNCHANGED <<ingest, embedded, sessions>>
  /\ UNCHANGED outsideStore

RECURSIVE SumRows(_, _)
\* the document_chunks rows of a set of documents
SumRows(rows_of, ds) ==
  IF ds = {} THEN 0
  ELSE LET d == CHOOSE x \in ds : TRUE IN rows_of[d] + SumRows(rows_of, ds \ {d})

\* SessionService.delete_session.  A missing session is a 404.  The file cleanup
\* of lines 79-85 calls delete_files_by_pattern, which no storage provider
\* defines: the AttributeError is logged and no file is removed.  The documents
\* rows are deleted by one DELETE statement, their chunks by the database
\* cascade; db_ok: whether the statements and the commit went through
DeleteSession(db_ok) ==
  /\ ingest.pc \in {"idle", "done"}
  /\ IF "s1" \notin sessions
     THEN /\ db_ok
          /\ removal' = [NoRemoval EXCEPT !.op = "delete_session", !.status_code = 404]
          /\ UNCHANGED <<documents, chunk_rows, total_documents, sessions>>
     ELSE IF db_ok
     THEN /\ documents' = [d \in DocumentIds |->
                            IF d \in DocumentsOf("s1") THEN NoDocument ELSE documents[d]]
          /\ chunk_rows' = OnDeleteCascade(chunk_rows, DocumentsOf("s1"))
          /\ sessions' = sessions \ {"s1"}
          /\ total_documents' = 0
          /\ removal' = [NoRemoval EXCEPT !.op = "delete_session",
                                          !.rows = SumRows(chunk_rows, DocumentsOf("s1")),
                                          !.status_code = 200]
     ELSE /\ removal' = [NoRemoval EXCEPT !.op = "delete_session", !.status_code = 500]
          /\ UNCHANGED <<documents, chunk_rows, total_documents, sessions>>
  /\ UNCHANGED <<files, ingest, embedded>>
  /\ UNCHANGED outsideStore

NextIng ==
  \/ \E st \in SourceTypes, s \in SessionIds : CreateDocument(st, s)
  \/ \E st \in SourceTypes, s \in SessionIds, n \in 0 .. 2 : CreateDocumentFails(st, s, n)
  \/ \E n \in 1 .. MaxChunks : ChunkAndEmbedReturns(n)
  \/ ChunkAndEmbedRaises
  \/ MarkCompleted
  \/ MarkCompletedFails
  \/ \E kept \in SUBSET FilesOf(ingest.source_type, ingest.document_id),
        db_ok \in BOOLEAN : CleanupDocument(kept, db_ok)
  \/ CreateSession

\* ingestions, delete_document and delete_session calls in any order, one
\* request at a time past the point where the Document row exists; a file
\* deletion fails for all files of a document or for none
NextStore ==
  \/ \E st \in SourceTypes : CreateDocument(st, "s1")
  \/ \E st \in SourceTypes : CreateDocumentFails(st, "s1", 0)
  \/ \E n \in 1 .. MaxChunks : ChunkAndEmbedReturns(n)
  \/ ChunkAndEmbedRaises
  \/ MarkCompleted
  \/ MarkCompletedFails
  \/ \E kept \in {{}, FilesOf(ingest.source_type, ingest.document_id)},
        db_ok \in BOOLEAN : CleanupDocument(kept, db_ok)
  \/ CreateSession
  \/ \E d \in DocumentIds, db_ok \in BOOLEAN :
       \E kept \in {{}, FilesOf(documents[d].source_type, d)} :
         DeleteDocument(d, kept, db_ok)
  \/ \E db_ok \in BOOLEAN : DeleteSession(db_ok)

(***************************************************************************)
(* The event loop of the worker process (main.py, api/question_routes.py)   *)
(***************************************************************************)
InitLoop ==
  /\ waiting = 0
  /\ served = {}

\* the route handler is a coroutine that calls the synchronous service without
\* awaiting: from its first statement to its return (time.sleep included) the
\* loop's thread is inside the handler
LoopFree == pc \in {"idle", "done"}

\* a client sends a request to another endpoint of the process
Arrive ==
  /\ waiting < MaxOthers
  /\ waiting' = waiting + 1
  /\ UNCHANGED served
  /\ UNCHANGED outsideLoop

\* the event loop runs the coroutine of a waiting request and answers it
ServeOther ==
  /\ waiting > 0
  /\ LoopFree
  /\ waiting' = waiting - 1
  /\ served' = served \cup {pc}
  /\ UNCHANGED outsideLoop

(***************************************************************************)
(* Chunk sizing (chunk_processor.py, config.py ChunkSettings)              *)
(***************************************************************************)
small_doc_threshold == 2000
medium_doc_threshold == 8000
large_doc_threshold == 20000
small_doc_chunk_size == 800
medium_doc_chunk_size == 1500
large_doc_chunk_size == 2500
xlarge_doc_chunk_size == 3500
small_doc_chunk_overlap == 100
medium_doc_chunk_overlap == 150
large_doc_chunk_overlap == 200
xlarge_doc_chunk_overlap == 300
chars_per_token_estimate == 6

RecursiveCharacterTextSplitter(size, ovl) == [chunk_size |-> size, chunk_overlap |-> ovl]

SwappedSplitter(document_length) ==
  LET estimated_chars == document_length * chars_per_token_estimate
  IN  IF estimated_chars <= small_doc_threshold
      THEN RecursiveCharacterTextSplitter(small_doc_chunk_size, small_doc_chunk_overlap)
      ELSE IF estimated_chars <= medium_doc_threshold
      THEN RecursiveCharacterTextSplitter(large_doc_chunk_size, large_doc_chunk_overlap)
      ELSE IF estimated_chars <= large_doc_threshold
      THEN RecursiveCharacterTextSplitter(medium_doc_chunk_size, medium_doc_chunk_overlap)
      ELSE RecursiveCharacterTextSplitter(xlarge_doc_chunk_size, xlarge_doc_chunk_overlap)
\* ChunkProcessor.setup_text_splitter
setup_text_splitter(document_length) ==
  LET estimated_chars == document_length * chars_per_token_estimate
  IN  IF estimated_chars <= small_doc_threshold
      THEN RecursiveCharacterTextSplitter(small_doc_chunk_size, small_doc_chunk_overlap)
      ELSE IF estimated_chars <= medium_doc_threshold
      THEN RecursiveCharacterTextSplitter(medium_doc_chunk_size, medium_doc_chunk_overlap)
      ELSE IF estimated_chars <= large_doc_threshold
      THEN RecursiveCharacterTextSplitter(large_doc_chunk_size, large_doc_chunk_overlap)
      ELSE RecursiveCharacterTextSplitter(xlarge_doc_chunk_size, xlarge_doc_chunk_overlap)

\* word counts (len(text_content.split()), vector_processor.py line 104): the
\* small ones, and the last of each bucket with the first of the next
DocumentLengths == (0 .. MaxWords) \cup {333, 334, 1333, 1334, 3333, 3334}

NoSplitter == [document_length |-> 0, chunk_size |-> 0, chunk_overlap |-> 0]

InitChunk ==
  /\ splitter = NoSplitter
  /\ sized = << >>

\* chunk_processor.setup_text_splitter(word_count), vector_processor.py line 105
SetupTextSplitter(document_length) ==
  /\ LET s == setup_text_splitter(document_length)
     IN  /\ splitter' = [document_length |-> document_length,
                         chunk_size |-> s.chunk_size,
                         chunk_overlap |-> s.chunk_overlap]
         /\ sized' = Put(sized, document_length, s)
  /\ UNCHANGED outsideChunk

NextChunk == \E n \in DocumentLengths : SetupTextSplitter(n)

(***************************************************************************)
(* SimpleCache used directly (vector_processor.py lines 16-30)             *)
(***************************************************************************)
NoCacheOp == [op |-> "none", key |-> <<"md5", "">>, returned |-> NoVector,
              present |-> FALSE, removed |-> {}]

InitCacheOp ==
  /\ cache_op = NoCacheOp
  /\ born = << >>
  /\ ops = 0

\* the keys and values the cache is used with: hashes of texts, and vectors
DirectKeys == {hash_content(t) : t \in EmbedTexts}
DirectValues == {ModelVector(t) : t \in ChunkTexts}

\* SimpleCache.get(key)
CacheGet(key) ==
  /\ cache_op' = [NoCacheOp EXCEPT !.op = "get", !.key = key,
                                   !.returned = SimpleCache_get(embedding_cache, key)]
  /\ UNCHANGED <<born, ops>>
  /\ UNCHANGED vecVars
  /\ UNCHANGED outsideCache

\* SimpleCache.set(key, value)
CacheSet(key, value) ==
  /\ ops < MaxOps
  /\ LET after == SimpleCache_set(embedding_cache, max_size, key, value)
         gone == CacheKeys(embedding_cache) \ CacheKeys(after)
         \* popped and stored again, the key is a new insertion
         again == Len(embedding_cache) >= max_size /\ embedding_cache[1].key = key
     IN  /\ embedding_cache' = after
         /\ cache_op' = [NoCacheOp EXCEPT !.op = "set", !.key = key,
                                          !.present = key \in CacheKeys(embedding_cache),
                                          !.removed = gone]
         /\ born' = [k \in CacheKeys(after) |->
                       IF k = key /\ (k \notin CacheKeys(embedding_cache) \/ again)
                       THEN ops + 1 ELSE born[k]]
  /\ ops' = ops + 1
  /\ UNCHANGED <<max_size, rows, next_id, vpc, doc, chunks, embeddings, ret, calls,
                 encoded, created, overlap>>
  /\ UNCHANGED outsideCache

\* SimpleCache.clear()
CacheClear ==
  /\ embedding_cache # << >>
  /\ embedding_cache' = << >>
  /\ cache_op' = [NoCacheOp EXCEPT !.op = "clear"]
  /\ born' = << >>
  /\ UNCHANGED ops
  /\ UNCHANGED <<max_size, rows, next_id, vpc, doc, chunks, embeddings, ret, calls,
                 encoded, created, overlap>>
  /\ UNCHANGED outsideCache

NextCache ==
  \/ \E key \in DirectKeys : CacheGet(key)
  \/ \E key \in DirectKeys, value \in DirectValues : CacheSet(key, value)
  \/ CacheClear

(***************************************************************************)
(* create_embeddings called by two requests on the shared VectorProcessor  *)
(* (vector_processor.py lines 42-88), one SimpleCache call at a time       *)
(***************************************************************************)
NoEmb == [pc |-> "idle", texts |-> << >>, looked |-> << >>, new |-> << >>,
          k |-> 0, out |-> << >>]

InitConc ==
  /\ emb = [p \in Callers |-> NoEmb]
  /\ raced = FALSE
  /\ emb_calls = 0

\* the lookups of a call that missed, and the texts and positions they stand for
Misses(e) == SelectSeq(e.looked, LAMBDA x : x.v = NoVector)
TextsToEmbed(e) == [j \in DOMAIN Misses(e) |-> e.texts[Misses(e)[j].i]]
TextIndices(e) == [j \in DOMAIN Misses(e) |-> Misses(e)[j].i]
InFlight(p) == emb[p].pc \in {"lookup", "populate"}

\* the mutant of CacheUpdate that pairs every text with the first new vector
CacheUpdateFirst(c, cap, to_embed, new, k) ==
  SimpleCache_set(c, cap, hash_content(to_embed[k]), new[1])
\* one round of the loop over zip(texts_to_embed, new_embeddings)
CacheUpdate(c, cap, to_embed, new, k) ==
  SimpleCache_set(c, cap, hash_content(to_embed[k]), new[k])

\* create_embeddings(texts) is entered: the empty list returns at once
EmbBegin(p, texts) ==
  /\ ~InFlight(p)
  /\ emb_calls < MaxCalls
  /\ emb_calls' = emb_calls + 1
  /\ emb' = [emb EXCEPT ![p] =
               IF texts = << >> THEN [NoEmb EXCEPT !.pc = "returned"]
               ELSE [NoEmb EXCEPT !.pc = "lookup", !.texts = texts]]
  /\ UNCHANGED raced
  /\ UNCHANGED vecVars
  /\ UNCHANGED outsideConc

\* one round of the lookup loop: embedding_cache.get of the next text's hash
EmbLookup(p) ==
  /\ emb[p].pc = "lookup"
  /\ Len(emb[p].looked) < Len(emb[p].texts)
  /\ LET i == Len(emb[p].looked) + 1
     IN  emb' = [emb EXCEPT ![p].looked =
                   Append(@, [i |-> i,
                              v |-> SimpleCache_get(embedding_cache,
                                                    hash_content(emb[p].texts[i]))])]
  /\ UNCHANGED <<raced, emb_calls>>
  /\ UNCHANGED vecVars
  /\ UNCHANGED outsideConc

\* after the lookups: model.encode on the misses, if there are any
EmbEncode(p) ==
  /\ emb[p].pc = "lookup"
  /\ Len(emb[p].looked) = Len(emb[p].texts)
  /\ emb' = [emb EXCEPT ![p].pc = "populate", ![p].k = 1,
                         ![p].new = Encode(TextsToEmbed(emb[p]))]
  /\ UNCHANGED <<raced, emb_calls>>
  /\ UNCHANGED vecVars
  /\ UNCHANGED outsideConc

\* model.encode raises: logged and re-raised
EmbEncodeFails(p) ==
  /\ emb[p].pc = "lookup"
  /\ Len(emb[p].looked) = Len(emb[p].texts)
  /\ Misses(emb[p]) # << >>
  /\ emb' = [emb EXCEPT ![p] = [NoEmb EXCEPT !.pc = "raised", !.texts = emb[p].texts]]
  /\ UNCHANGED <<raced, emb_calls>>
  /\ UNCHANGED vecVars
  /\ UNCHANGED outsideConc

\* one round of the cache update loop: embedding_cache.set
EmbPopulate(p) ==
  /\ emb[p].pc = "populate"
  /\ emb[p].k <= Len(emb[p].new)
  /\ embedding_cache' = CacheUpdate(embedding_cache, max_size, TextsToEmbed(emb[p]),
                                    emb[p].new, emb[p].k)
  /\ emb' = [emb EXCEPT ![p].k = @ + 1]
  /\ raced' = (raced \/ (Len(embedding_cache) >= max_size
                          /\ \E q \in Callers \ {p} : InFlight(q)))
  /\ UNCHANGED emb_calls
  /\ UNCHANGED <<max_size, rows, next_id, vpc, doc, chunks, embeddings, ret, calls,
                 encoded, created, overlap>>
  /\ UNCHANGED outsideConc

\* hits and new vectors merged, sorted by position and returned
EmbReturn(p) ==
  /\ emb[p].pc = "populate"
  /\ emb[p].k > Len(emb[p].new)
  /\ LET hits == SelectSeq(emb[p].looked, LAMBDA x : x.v # NoVector)
         merged == SortByIndex(hits \o Zip(TextIndices(emb[p]), emb[p].new))
     IN  emb' = [emb EXCEPT ![p] = [NoEmb EXCEPT !.pc = "returned", !.texts = emb[p].texts,
                                                 !.out = [j \in DOMAIN merged |-> merged[j].v]]]
  /\ UNCHANGED <<raced, emb_calls>>
  /\ UNCHANGED vecVars
  /\ UNCHANGED outsideConc

NextConc ==
  \/ \E p \in Callers, texts \in TextContents : EmbBegin(p, texts)
  \/ \E p \in Callers : EmbLookup(p)
  \/ \E p \in Callers : EmbEncode(p)
  \/ \E p \in Callers : EmbEncodeFails(p)
  \/ \E p \in Callers : EmbPopulate(p)
  \/ \E p \in Callers : EmbReturn(p)

(***************************************************************************)
(* Specifications                                                          *)
(***************************************************************************)
\* the state of retrieval, ingestion, the event loop and chunk sizing after
\* construction
InitRest ==
  InitSrch /\ InitIng /\ InitLoop /\ InitChunk /\ InitCacheOp /\ InitConc /\ InitStore

\* one generation request served by the process
InitOfGen == InitGen /\ max_size = 1 /\ InitVecState /\ InitRest
SpecGen == InitOfGen /\ [][NextGen]_vars

\* chunk_and_embed_document called from one session, one call after the other
InitOfVec ==
  /\ InitGen
  /\ settings.questions_per_chunk = DefaultPerChunk
  /\ InitVec
  /\ InitRest

NextVec ==
  \/ \E d \in Docs, t \in TextContents : Call(1, d, t)
  \/ Check(1)
  \/ Embed(1)
  \/ EmbedFails(1)
  \/ Commit(1)
  \/ CommitFails(1)
  \/ cleanup_cache

SpecVec == InitOfVec /\ [][NextVec]_vars

\* chunk_and_embed_document called from two sessions whose calls interleave,
\* while the application serves (cleanup_cache runs at shutdown only)
InitOfVecConc ==
  /\ InitGen
  /\ settings.questions_per_chunk = DefaultPerChunk
  /\ max_size = MaxCap
  /\ InitVecState
  /\ InitRest

NextVecConc ==
  \/ \E p \in Callers, d \in Docs, t \in TextContents : Call(p, d, t)
  \/ \E p \in Callers : Check(p)
  \/ \E p \in Callers : Embed(p)
  \/ \E p \in Callers : EmbedFails(p)
  \/ \E p \in Callers : Commit(p)
  \/ \E p \in Callers : CommitFails(p)

SpecVecConc == InitOfVecConc /\ [][NextVecConc]_vars

\* create_embeddings and cleanup_cache called in any order on one VectorProcessor
InitOfEmb ==
  /\ InitGen
  /\ settings.questions_per_chunk = DefaultPerChunk
  /\ InitVec
  /\ InitRest

NextEmb ==
  \/ \E texts \in EmbedBatches : CreateEmbeddings(texts)
  \/ \E texts \in EmbedBatches : CreateEmbeddingsFails(texts)
  \/ cleanup_cache

SpecEmb == InitOfEmb /\ [][NextEmb]_vars

\* retrieval over the chunks of two ingested documents
InitOfSearch ==
  /\ InitGen
  /\ settings.questions_per_chunk = DefaultPerChunk
  /\ max_size \in 1 .. MaxCap
  /\ embedding_cache = << >>
  /\ rows \in Tables
  /\ next_id = Cardinality(rows) + 1
  /\ vpc = [p \in Callers |-> "idle"]
  /\ doc = [p \in Callers |-> "d1"]
  /\ chunks = [p \in Callers |-> << >>]
  /\ embeddings = [p \in Callers |-> << >>]
  /\ ret = [p \in Callers |-> NoReturn]
  /\ calls = 0
  /\ encoded = << >>
  /\ created = [d \in Docs |-> RowsOf(d)]
  /\ overlap = [d \in Docs |-> FALSE]
  /\ InitRest

NextSearch ==
  \/ \E query \in Queries, ids \in DocumentIdLists, k \in TopKs :
       similarity_search(query, ids, k)
  \/ \E query \in Queries, ids \in DocumentIdLists, k \in TopKs :
       SimilaritySearchFails(query, ids, k)
  \/ \E topic \in Queries, ids \in DocumentIdLists, max_len \in ContextLengths :
       get_relevant_context(topic, ids, max_len)
  \/ TakeResult
  \/ cleanup_cache

SpecSearch == InitOfSearch /\ [][NextSearch]_vars

\* ingestion requests, one after the other
InitOfIngest ==
  /\ InitGen
  /\ settings.questions_per_chunk = DefaultPerChunk
  /\ max_size = 1
  /\ InitVecState
  /\ InitRest

SpecIngest == InitOfIngest /\ [][NextIng]_vars

\* ingestions and deletions on one database
InitOfStore ==
  /\ InitGen
  /\ settings.questions_per_chunk = DefaultPerChunk
  /\ max_size = 1
  /\ InitVecState
  /\ InitRest

SpecStore == InitOfStore /\ [][NextStore]_vars

\* setup_text_splitter called for one word count after the other
InitOfChunk ==
  /\ InitGen
  /\ settings.questions_per_chunk = DefaultPerChunk
  /\ max_size = 1
  /\ InitVecState
  /\ InitRest

SpecChunk == InitOfChunk /\ [][NextChunk]_vars

\* get, set and clear called on one SimpleCache in any order
InitOfCache ==
  /\ InitGen
  /\ settings.questions_per_chunk = DefaultPerChunk
  /\ InitVec
  /\ InitRest

SpecCache == InitOfCache /\ [][NextCache]_vars

\* two requests calling create_embeddings on the shared VectorProcessor
InitOfConc ==
  /\ InitGen
  /\ settings.questions_per_chunk = DefaultPerChunk
  /\ InitVec
  /\ InitRest

SpecConc == InitOfConc /\ [][NextConc]_vars

\* one chunked run of question generation, with targets that leave calls after
\* the chunk size was halved
RunTargets == 1 .. (MaxTarget + 2)
\* message.content of a successful completion in such a run: cached or too short
\* for the cache, with valid items, without, or not parseable as items
RunContents ==
  {EmptyString, Text(MinCachedLen, <<GoodItem>>), Text(MinCachedLen + 1, <<GoodItem>>),
   Text(MinCachedLen + 1, <<GoodItem, GoodItem>>), Text(MinCachedLen, <<BadItem>>),
   Text(MinCachedLen, <<GoodItem, NonDict>>)}

InitOfRun ==
  /\ InitGen
  /\ settings.questions_per_chunk \in 1 .. MaxChunk
  /\ max_size = 1
  /\ InitVecState
  /\ InitRest

NextRun ==
  \/ \E q \in RunTargets : StartRequest(q, 1)
  \/ generate_questions_chunked
  \/ LoopHead
  \/ GenCacheHit
  \/ \E c \in RunContents : LLMSuccess(c)
  \/ \E e \in LLMErrors : LLMFailure(e)
  \/ Backoff
  \/ EndCall
  \/ ReturnChunked

SpecRun == InitOfRun /\ [][NextRun]_vars

\* one generation request with an empty response cache, while requests to other
\* endpoints arrive
InitOfLoop ==
  /\ InitGen
  /\ settings.questions_per_chunk = 1
  /\ max_size = 1
  /\ InitVecState
  /\ InitRest

NextLoop ==
  \/ StartRequest(1, 1)
  \/ generate_questions_chunked
  \/ generate_flashcards_chunked
  \/ LoopHead
  \/ \E c \in LLMContents : LLMSuccess(c)
  \/ \E e \in LLMErrors : LLMFailure(e)
  \/ Backoff
  \/ EndCall
  \/ ReturnChunked
  \/ SaveItems
  \/ Respond
  \/ Arrive
  \/ ServeOther

SpecLoop == InitOfLoop /\ [][NextLoop]_vars

(***************************************************************************)
(* Properties of the generation client and the chunked generator           *)
(***************************************************************************)
\* the log entries of the calls made for content type k
LogOf(k) == SelectSeq(log, LAMBDA e : e.kind = k)
\* the prompt of the generation call in progress
CurrentPrompt == FormatPrompt(kind, current_chunk)

\* C1: generate_questions_chunked and generate_flashcards_chunked never return
\* more than target_count items, whatever the LLM delivered.
C1_AtMostTarget == Len(result) <= target_count

\* C1 witness: a run has returned exactly target_count items although its last
\* response held more valid items than the call asked for (over-delivery).
C1_Witness ==
  /\ pc = "save"
  /\ target_count > 0
  /\ Len(result) = target_count
  /\ log[Len(log)].valid > log[Len(log)].asked

\* the scenario of C2: 5 quiz questions at 15 per chunk, the first quiz call's
\* response held 3 valid and 2 invalid items, and the request ended with a report
C2_Scenario ==
  /\ pc = "done"
  /\ reply.status_code = 200
  /\ request.quiz_count = 5
  /\ settings.questions_per_chunk = 15
  /\ LogOf("questions") # << >>
  /\ LogOf("questions")[1].valid = 3
  /\ LogOf("questions")[1].invalid = 2

C3_ThirdCallHalved ==
  ( /\ pc = "save"
    /\ kind = "questions"
    /\ target_count = 20
    /\ settings.questions_per_chunk = 15
    /\ Len(LogOf("questions")) >= 2
    /\ LogOf("questions")[1].got = 0
    /\ LogOf("questions")[2].got = 0 )
  => /\ Len(LogOf("questions")) >= 3
     /\ LogOf("questions")[3].asked = 7

\* C4 as stated: generate_content returns a string, and the empty string exactly
\* when every attempt failed (the last attempt of a call fails only if all did).
C4_StringEmptyIffFailed ==
  pc = "returned" =>
    /\ response.kind = "str"
    /\ (response = EmptyString <=> outcome \in LLMErrors)

\* C5: one generate_content call issues at most 4 completion requests; a request
\* that is not the first follows a failed one, and a successful request ends the call.
C5_RequestBudget ==
  [][ llm_requests' = llm_requests + 1 =>
        /\ llm_requests < 4
        /\ (llm_requests > 0 => outcome \in LLMErrors)
        /\ (outcome' = "ok" => pc' = "returned")
        /\ (outcome' \in LLMErrors /\ llm_requests' < 4 => pc' = "sleep") ]_genVars

\* C5 witness: a call that returned after its fourth request, which succeeded
C5_Witness == pc = "returned" /\ llm_requests = 4 /\ outcome = "ok"

\* C6 as stated: once a completion for prompt p has returned a (non-empty) response,
\* every later generate_content(p) before clear_cache returns that text and issues
\* no completion request.
C6_Original ==
  [][ (pc = "attempt" /\ CurrentPrompt \in DOMAIN lastok) =>
        /\ pc' = "returned"
        /\ response' = lastok[CurrentPrompt].text
        /\ llm_requests' = llm_requests ]_genVars

\* C6 amended: once a completion for prompt p has returned a response of more than
\* 50 characters while the cache held fewer than 1000 entries, every later
\* generate_content(p) before clear_cache returns that text and issues no request.
C6_Amended ==
  [][ ( /\ pc = "attempt"
        /\ CurrentPrompt \in DOMAIN lastok
        /\ lastok[CurrentPrompt].text.chars > 50
        /\ lastok[CurrentPrompt].size < 1000 ) =>
        /\ pc' = "returned"
        /\ response' = lastok[CurrentPrompt].text
        /\ llm_requests' = llm_requests
        /\ cache' = cache ]_genVars

\* C6 witness: a generate_content call answered from the cache with the text an
\* earlier completion returned for the same prompt
C6_Witness ==
  /\ pc = "returned"
  /\ outcome = "hit"
  /\ llm_requests = 0
  /\ CurrentPrompt \in DOMAIN lastok
  /\ response = lastok[CurrentPrompt].text

(***************************************************************************)
(* Properties of the chunk-and-embed pipeline and the embedding engine     *)
(***************************************************************************)
\* the chunk indexes 0 .. n - 1 of a set of n rows
Contiguous(rs) == {r.chunk_index : r \in rs} = 0 .. (Cardinality(rs) - 1)
\* no two rows of rs share a document id and a chunk index
UniqueIndex(rs) ==
  \A r1 \in rs, r2 \in rs :
    (r1.document_id = r2.document_id /\ r1.chunk_index = r2.chunk_index) => r1 = r2
\* the vectors the embedding model yields for the texts, position by position
EmbeddingsOf(texts) == [i \in DOMAIN texts |-> ModelVector(texts[i])]

\* C7: called one after the other, a call of chunk_and_embed_document for a
\* document id that already has persisted chunks returns the identical chunk
\* set (the one the creating call returned), writes no chunk row and does not
\* invoke the embedding engine (nor touch its cache).
C7_SecondCallNoOp ==
  [][(vpc[1] = "check" /\ vpc'[1] # "check" /\ RowsOf(doc[1]) # {})
       => /\ vpc'[1] = "idle"
          /\ ret'[1].status = "returned"
          /\ ret'[1].rows = created[doc[1]]
          /\ rows' = rows
          /\ next_id' = next_id
          /\ encoded' = << >>
          /\ embedding_cache' = embedding_cache]_vars

\* C7 witness: the second call for a document whose first call persisted two
\* chunks has returned, having found the rows, and the table still holds
\* exactly those two rows.
C7_Witness ==
  /\ calls = 2
  /\ vpc[1] = "idle"
  /\ ret[1].status = "returned"
  /\ ret[1].existing
  /\ Cardinality(ret[1].rows) = 2
  /\ rows = ret[1].rows

\* C8 as stated: after any sequence or interleaving of calls for the same
\* document id, two calls that both pass the existence check before either
\* commits included, the persisted rows hold each chunk_index of a document at
\* most once.
C8_Original == UniqueIndex(rows)

\* C8 as amended: for a document id of which no call passed the existence check
\* while another call for that id was between its check and its commit, the
\* persisted rows are the set the one creating call wrote, with indexes
\* 0 .. n - 1 each once.
C8_Amended ==
  \A d \in Docs :
    ~overlap[d] => /\ RowsOf(d) = created[d]
                   /\ UniqueIndex(RowsOf(d))
                   /\ Contiguous(RowsOf(d))

\* C8 witness: two sessions called for the same document id without passing
\* the check together; one created two chunks, the other found them and
\* returned the same rows.
C8_Witness ==
  /\ vpc[1] = "idle" /\ vpc[2] = "idle"
  /\ doc[1] = doc[2]
  /\ ~overlap[doc[1]]
  /\ ret[1].status = "returned" /\ ~ret[1].existing
  /\ Cardinality(ret[1].rows) = 2
  /\ ret[2].status = "returned" /\ ret[2].existing
  /\ ret[2].rows = ret[1].rows
  /\ RowsOf(doc[1]) = ret[1].rows

\* C9: chunk persistence is all-or-nothing per document.  A call that raises
\* (embedding failure, count mismatch, write failure) leaves no chunk row of
\* its document; a call that returns a non-empty result leaves exactly the
\* returned rows as the document's rows, with indexes 0 .. n - 1, and a call
\* that created them wrote one row per chunk with the chunk's text and vector.
C9_AllOrNothing ==
  [][(vpc[1] # "idle" /\ vpc'[1] = "idle")
       => LET after == {r \in rows' : r.document_id = doc[1]}
              out == ret'[1]
          IN  /\ out.status \in {"raised", "returned"}
              /\ out.status = "raised" => after = {}
              /\ (out.status = "returned" /\ out.rows # {})
                   => /\ after = out.rows
                      /\ Contiguous(after)
                      /\ ~out.existing
                           => /\ Cardinality(after) = Len(chunks[1])
                              /\ \A i \in DOMAIN chunks[1] :
                                   \E r \in after :
                                     /\ r.chunk_index = i - 1
                                     /\ r.content = chunks[1][i]
                                     /\ r.embedding = ModelVector(chunks[1][i])]_vars

\* C9 witness: after a first document was persisted, a call for another
\* document failed at the write and raised; the table holds the first
\* document's rows and no row of the second.
C9_Witness ==
  /\ vpc[1] = "idle"
  /\ ret[1].status = "raised"
  /\ ret[1].error = "write"
  /\ rows # {}
  /\ RowsOf(doc[1]) = {}
  /\ next_id > 1

\* C10: for every input sequence and every cache state the process reaches,
\* create_embeddings returns one vector per text, the vector at position i being
\* the embedding of texts[i]; empty input gives empty output; and the vectors
\* chunk_and_embed_document holds after embedding are those of its chunks.
C10_OneVectorPerText ==
  /\ \A texts \in TextContents :
       create_embeddings(embedding_cache, max_size, texts).out = EmbeddingsOf(texts)
  /\ create_embeddings(embedding_cache, max_size, << >>).out = << >>
  /\ \A p \in Callers :
       vpc[p] = "insert" => embeddings[p] = EmbeddingsOf(chunks[p])

\* C10 witness: a batch of two different texts was embedded with the first a
\* cache miss (passed to the model) and the second a cache hit, so the hit was
\* collected before the miss and the merge had to restore the input order.
C10_Witness ==
  /\ vpc[1] = "insert"
  /\ Len(chunks[1]) = 2
  /\ chunks[1][1] # chunks[1][2]
  /\ encoded = <<chunks[1][1]>>
  /\ embeddings[1] = <<ModelVector(chunks[1][1]), ModelVector(chunks[1][2])>>

(***************************************************************************)
(* Properties of the embedding cache, retrieval and the context assembler  *)
(***************************************************************************)
\* an engine with no cache: model.encode on the whole batch
NoCacheEngine(texts) == Encode(texts)

\* C11: the embedding cache is correctness-neutral.  After any sequence of
\* create_embeddings and cleanup_cache calls, for every capacity from 1 up, the
\* vectors the last create_embeddings call returned are those an engine with no
\* cache returns for its texts, and each is identical to the vector returned
\* the first time the same text was embedded.
C11_CacheNeutral ==
  /\ emb_call.out = NoCacheEngine(emb_call.texts)
  /\ \A i \in DOMAIN emb_call.texts :
       /\ emb_call.texts[i] \in DOMAIN seen
       /\ emb_call.out[i] = seen[emb_call.texts[i]]

\* C11 witness: a batch holding a text embedded before was embedded with more
\* cache misses than the cache has room for, so population evicted entries.
C11_Witness ==
  /\ emb_call.again # {}
  /\ Len(encoded) > max_size
  /\ Len(emb_call.out) = Len(emb_call.texts)

\* C12: every result similarity_search returns has a similarity_score at or
\* above the configured threshold, and the results are in non-increasing order
\* of similarity_score, whatever the query, the filter, top_k and the table.
C12_ThresholdAndOrder ==
  LET res == search.results
  IN  /\ \A i \in DOMAIN res : res[i].similarity_score >= similarity_threshold
      /\ \A i \in DOMAIN res, j \in DOMAIN res :
           i < j => res[i].similarity_score >= res[j].similarity_score

\* C12 witness: a search returned two results of different scores although the
\* table holds a row of the searched documents that scores below the threshold.
C12_Witness ==
  /\ Len(search.results) = 2
  /\ search.results[1].similarity_score > search.results[2].similarity_score
  /\ search.top_k >= Cardinality(rows)
  /\ \E r \in rows :
       /\ search.document_ids = {} \/ r.document_id \in search.document_ids
       /\ SimilarityScore(r.embedding, ModelVector(search.query)) < similarity_threshold

\* C13: the string get_relevant_context returns, measured in full with the
\* separators joined between its pieces, is never longer than
\* max_context_length plus the overhead of the truncation marker.
C13_ContextLength == context.chars <= context.max_context_length + MarkerChars

(***************************************************************************)
(* Properties of the generation request                                    *)
(***************************************************************************)
\* C14: the outcome of process_rag_quiz_and_flashcards is a structured status
\* that tells the failure kinds apart: a request whose assembled context is
\* empty is reported as "no relevant context" (HTTP 400, noRelevantContext),
\* not with the status of a generation that failed outright (generationFailed),
\* and a partial generation is a report carrying a numeric success rate.
C14_StructuredStatus ==
  pc = "done" =>
    /\ reply.status_code \in {200, 400, 500}
    /\ rag_context = "empty" <=> reply.translation_key = "noRelevantContext"
    /\ reply.translation_key = "generationFailed" => rag_context = "text"
    /\ reply.status_code = 200 =>
         /\ reply.status \in {"success", "partial_success", "warning"}
         /\ reply.success_rate \in 0 .. 1000

\* the QuestionAnswer rows of a Question row that are marked correct
CorrectAnswers(q) == {j \in DOMAIN q.answers : q.answers[j].is_correct}

\* C17: every Question the generation flow persisted owns QuestionAnswer rows of
\* which exactly one is marked correct, and that row's content is the item's
\* correct_answer, for every item that passed the quiz validator.
C17_OneCorrectAnswer ==
  \A i \in DOMAIN saved_questions :
    LET q == saved_questions[i]
    IN  /\ Cardinality(CorrectAnswers(q)) = 1
        /\ \A j \in CorrectAnswers(q) : q.answers[j].content = q.correct_answer

\* C18: every item generate_questions_chunked / generate_flashcards_chunked
\* returns satisfies the validator of its type, and an invalid item in a
\* response does not abort the batch: each generation call keeps the valid
\* items of its response, up to the count it asked for.
C18_ValidItemsKept ==
  /\ \A i \in DOMAIN result : result[i].dict /\ Validator(kind, result[i])
  /\ \A n \in DOMAIN log :
       ~log[n].open => log[n].got = Min(log[n].valid, log[n].asked)

(***************************************************************************)
(* Properties of document ingestion                                        *)
(***************************************************************************)
\* C15: when chunk-and-embed (or the commit of the new status) failed for a
\* Document row created with status processing, the failure is reported with
\* the row deleted and its stored source and content files removed.
C15_FailedEmbeddingCleansUp ==
  (ingest.pc = "done" /\ ingest.cause = "embeddingFailed") =>
    /\ documents[ingest.document_id] = NoDocument
    /\ files \cap FilesOf(ingest.source_type, ingest.document_id) = {}

\* C16: a Document row is created with status processing, and a row has status
\* completed only when chunk_and_embed_document had returned successfully for
\* it before the status was written.
C16_CompletedOnlyAfterEmbedding ==
  [][ \A d \in DocumentIds :
        /\ (documents'[d].processing_status = "completed" => d \in embedded)
        /\ (documents[d] = NoDocument /\ documents'[d] # NoDocument
              => documents'[d].processing_status = "processing") ]_vars

\* C16 witness: an ingestion went through, its document is completed
C16_Witness ==
  /\ ingest.pc = "done"
  /\ ingest.status_code = 200
  /\ documents[ingest.document_id].processing_status = "completed"
  /\ ingest.document_id \in embedded

(***************************************************************************)
(* Properties of chunk sizing                                              *)
(***************************************************************************)
\* C19: for every document length setup_text_splitter was called with, the
\* chosen chunk_overlap is below the chosen chunk_size, and of two lengths the
\* larger never got the smaller chunk_size.
C19_OverlapBelowSizeMonotonic ==
  \A a \in DOMAIN sized :
    /\ sized[a].chunk_overlap < sized[a].chunk_size
    /\ \A b \in DOMAIN sized : a <= b => sized[a].chunk_size <= sized[b].chunk_size

\* C19 witness: lengths of all four buckets were sized, the last one the first
\* length of the large bucket, and the sizes differ across each threshold
C19_Witness ==
  /\ {0, 333, 334, 1333, 1334, 3333, 3334} \subseteq DOMAIN sized
  /\ splitter.document_length = 1334
  /\ sized[333].chunk_size < sized[334].chunk_size
  /\ sized[1333].chunk_size < sized[1334].chunk_size
  /\ sized[3333].chunk_size < sized[3334].chunk_size

(***************************************************************************)
(* Properties of the event loop                                            *)
(***************************************************************************)
\* C20: while the generation request sleeps in a retry backoff delay, a
\* waiting request to another endpoint can be answered.
C20_OthersProgressDuringBackoff ==
  (pc = "sleep" /\ waiting > 0) => ENABLED ServeOther

(***************************************************************************)
(* Properties of the chunked generation loop                               *)
(***************************************************************************)
\* the chunk size the run in progress was started with
InitialChunkSize ==
  IF kind = "questions" THEN settings.questions_per_chunk ELSE settings.flashcards_per_chunk
\* the run in progress is inside its loop, or has just left it
InRun == pc \in {"loop", "attempt", "sleep", "returned", "loop_end"}

\* C21: a chunked run makes at most ceil(target_count / initial chunk_size)
\* generation calls, the budget staying what it was at the start also after the
\* chunk size was halved, and it makes no call once the accumulated items have
\* reached target_count.
C21_CallBudget ==
  InRun =>
    /\ num_calls * InitialChunkSize >= target_count
    /\ (num_calls - 1) * InitialChunkSize < target_count
    /\ Len(LogOf(kind)) <= num_calls
    /\ (pc \in {"attempt", "sleep", "returned"} => Len(all_items) < target_count)

\* C21 witness: a run left its loop with the budget used up after its chunk
\* size was halved, short of the target
C21_Witness ==
  /\ pc = "loop_end"
  /\ chunk_size < InitialChunkSize
  /\ Len(LogOf(kind)) = num_calls
  /\ num_calls >= 2
  /\ Len(all_items) < target_count

\* C22: each call asks for min(chunk_size, target_count - accumulated) items;
\* chunk_size changes only at the end of a call that gave no valid item, when at
\* least 2 calls gave none and the accumulated items are below half the target,
\* and then becomes max(1, chunk_size div 2); it is never below 1.
C22_AdaptiveChunkSize ==
  [][ InRun =>
        /\ (pc = "loop" /\ pc' = "attempt" =>
              /\ current_chunk' <= chunk_size
              /\ current_chunk' <= target_count - Len(all_items)
              /\ current_chunk' \in {chunk_size, target_count - Len(all_items)})
        /\ IF /\ pc = "returned"
              /\ log'[Len(log')].got = 0
              /\ failed_calls' >= 2
              /\ 2 * Len(all_items') < target_count
           THEN chunk_size' = IF chunk_size \div 2 >= 1 THEN chunk_size \div 2 ELSE 1
           ELSE chunk_size' = chunk_size
        /\ chunk_size' >= 1 ]_vars

\* C22 witness: after two calls without a valid item the chunk size was halved,
\* and the next call asks for the halved number of items
C22_Witness ==
  /\ pc = "attempt"
  /\ failed_calls >= 2
  /\ chunk_size >= 1
  /\ chunk_size < InitialChunkSize
  /\ current_chunk = chunk_size
  /\ current_chunk < target_count - Len(all_items)

\* C27: the items an iteration of the chunked loop adds come from an LLM
\* request issued in that iteration, also when an earlier iteration of the run
\* formatted the same prompt.
C27_ItemsFromOwnRequest ==
  (pc = "returned" /\ JsonItems(kind, response, current_chunk) # << >>) =>
    llm_requests >= 1

(***************************************************************************)
(* Properties of retrieval with a candidate list, and of context assembly  *)
(***************************************************************************)
\* C24: when similarity_search was given a document id list, of any length,
\* every chunk it returns belongs to a document of that list.
C24_ResultsWithinCandidates ==
  (search # NoSearch /\ search.document_ids # NoneIds) =>
    \A i \in DOMAIN search.results :
      search.results[i].document_id \in search.document_ids

RECURSIVE PrefixChars(_, _)
\* the characters of the first k results
PrefixChars(results, k) ==
  IF k = 0 THEN 0 ELSE PrefixChars(results, k - 1) + ContentChars(results[k].content)
\* the length of the longest prefix of the results that fits max_len in full
FullPrefix(results, max_len) ==
  CHOOSE k \in 0 .. Len(results) :
    /\ PrefixChars(results, k) <= max_len
    /\ (k < Len(results) => PrefixChars(results, k + 1) > max_len)
\* parts holds the first k results in full
FirstInFull(parts, results, k) ==
  \A i \in 1 .. k :
    /\ parts[i].content = results[i].content
    /\ ~parts[i].truncated
    /\ parts[i].chars = ContentChars(results[i].content)
\* parts ends with result k + 1 cut to the budget the first k left
ThenTruncated(parts, results, k, max_len) ==
  /\ Len(parts) = k + 1
  /\ parts[k + 1].content = results[k + 1].content
  /\ parts[k + 1].truncated
  /\ parts[k + 1].chars = max_len - PrefixChars(results, k)

\* C23 as stated: the pieces are the longest prefix of the ranked results that
\* fits the budget in full, followed by the first chunk that does not fit, cut
\* to the remaining budget with the truncation marker, and nothing after it.
C23_Original ==
  (context # NoContext /\ search.results # << >>) =>
    LET k == FullPrefix(search.results, context.max_context_length)
    IN  /\ FirstInFull(context.parts, search.results, k)
        /\ IF k = Len(search.results) THEN Len(context.parts) = k
           ELSE ThenTruncated(context.parts, search.results, k, context.max_context_length)

\* C23 amended: as stated, except that the first chunk that does not fit is
\* added (cut to the remaining budget) only when more than min_context_chars of
\* the budget remain; otherwise it is dropped, and the pieces are the prefix alone.
C23_Amended ==
  (context # NoContext /\ search.results # << >>) =>
    LET k == FullPrefix(search.results, context.max_context_length)
    IN  /\ FirstInFull(context.parts, search.results, k)
        /\ IF k = Len(search.results) THEN Len(context.parts) = k
           ELSE IF context.max_context_length - PrefixChars(search.results, k)
                     > min_context_chars
           THEN ThenTruncated(context.parts, search.results, k, context.max_context_length)
           ELSE Len(context.parts) = k

\* C23 witness: a chunk was cut to the remaining budget, and the assembly left
\* out the results ranked after it
C23_Witness ==
  /\ context # NoContext
  /\ context.parts # << >>
  /\ context.parts[Len(context.parts)].truncated
  /\ Len(search.results) > Len(context.parts)

\* C23 second witness: the first chunk that did not fit was dropped, and a
\* later result that would have fitted was left out
C23_WitnessDropped ==
  /\ context # NoContext
  /\ context.parts # << >>
  /\ ~context.parts[Len(context.parts)].truncated
  /\ Len(search.results) >= Len(context.parts) + 2
  /\ \E j \in (Len(context.parts) + 2) .. Len(search.results) :
       PrefixChars(search.results, Len(context.parts))
         + ContentChars(search.results[j].content) <= context.max_context_length

(***************************************************************************)
(* Properties of SimpleCache                                               *)
(***************************************************************************)
\* C25: the cache never holds more than max_size entries; when set removes an
\* entry, it is the one inserted longest ago among those present; get changes
\* neither the contents nor the order.
C25_BoundedOldestFirst ==
  [][ /\ Len(embedding_cache') <= max_size
      /\ (cache_op'.op = "set" =>
            \A k \in cache_op'.removed \cup
                       (IF Len(embedding_cache) >= max_size /\ cache_op'.present
                           /\ born'[cache_op'.key] # born[cache_op'.key]
                        THEN {cache_op'.key} ELSE {}) :
              \A other \in CacheKeys(embedding_cache) : born[k] <= born[other])
      /\ (cache_op'.op = "get" => embedding_cache' = embedding_cache) ]_vars

\* C25 witness: a set call on a full cache of more than one entry removed the
\* oldest entry and admitted a new key
C25_Witness ==
  /\ cache_op.op = "set"
  /\ ~cache_op.present
  /\ cache_op.removed # {}
  /\ Len(embedding_cache) = max_size
  /\ max_size >= 2
  /\ embedding_cache[Len(embedding_cache)].key = cache_op.key

\* C30: a set call for a key that is already in the cache replaces that key's
\* value and removes no other entry.
C30_SetOfPresentKeyKeepsOthers ==
  (cache_op.op = "set" /\ cache_op.present) => cache_op.removed \ {cache_op.key} = {}

(***************************************************************************)
(* Properties of two create_embeddings calls sharing the cache             *)
(***************************************************************************)
\* C26: the race of two create_embeddings calls on the shared cache is benign.
\* However the cache reads and writes of the two calls interleave, at capacity
\* or below it: the next cache update of a call in flight cannot raise (the
\* eviction has a key to pop, the text has its new vector), a call that
\* returned holds the model's vector for each of its texts, position by
\* position, and every cache entry has the hash of a text as key and that
\* text's vector as value.
C26_BenignRace ==
  /\ \A p \in Callers :
       (emb[p].pc = "populate" /\ emb[p].k <= Len(emb[p].new)) =>
         /\ Len(embedding_cache) >= max_size => embedding_cache # << >>
         /\ emb[p].k \in DOMAIN TextsToEmbed(emb[p])
  /\ \A p \in Callers :
       emb[p].pc = "returned" =>
         emb[p].out = [i \in DOMAIN emb[p].texts |-> ModelVector(emb[p].texts[i])]
  /\ \A n \in DOMAIN embedding_cache :
       \E t \in ChunkTexts :
         /\ embedding_cache[n].key = <<"md5", t>>
         /\ embedding_cache[n].value = ModelVector(t)

\* C26 witness: both calls have returned vectors for two-text batches that
\* share a text, after one of them evicted a cache entry at capacity while the
\* other was between its lookups and its return.
C26_Witness ==
  /\ raced
  /\ \A p \in Callers : emb[p].pc = "returned" /\ Len(emb[p].out) = 2
  /\ \E i, j \in 1 .. 2 : emb[1].texts[i] = emb[2].texts[j]
  /\ emb[1].texts # emb[2].texts

(***************************************************************************)
(* Properties of the session counter and of chunk ownership                *)
(***************************************************************************)
\* the documents of the session whose status is completed
CompletedOf(session_id) ==
  {d \in DocumentsOf(session_id) : documents[d].processing_status = "completed"}

\* C28: whenever no ingestion is under way, after any sequence of ingestions
\* (successful, or failing at the embedding step) and document deletions in a
\* session, the session's total_documents equals the number of its documents
\* with status completed, and it is not negative.
C28_CounterMatchesCompleted ==
  (ingest.pc \in {"idle", "done"} /\ "s1" \in sessions) =>
    /\ total_documents = Cardinality(CompletedOf("s1"))
    /\ total_documents >= 0

\* C29: every document_chunks row belongs to an existing Document.  In every
\* state reached by ingestions, failed-ingestion cleanups, delete_document and
\* delete_session calls, a document id with chunk rows has a documents row.
C29_ChunksHaveDocument ==
  \A d \in DocumentIds : chunk_rows[d] > 0 => documents[d] # NoDocument

\* C29 witness: delete_session has just removed a session whose documents had
\* chunk rows, while a document ingested after an earlier deletion is absent.
C29_Witness ==
  /\ removal.op = "delete_session"
  /\ removal.status_code = 200
  /\ removal.rows > 0
  /\ ingest.document_id = MaxDocs
  /\ \A d \in DocumentIds : documents[d] = NoDocument
=============================================================================
